---- MODULE Spec2Model ----
(***************************************************************************)
(* Knowledge-base index/sync engine (database.py, tools.py).               *)
(*                                                                         *)
(* Text (file content, titles, paths) is a sequence of one-character       *)
(* strings, so that the string functions of the source (split, strip,      *)
(* re.sub, startswith) are computed character by character.                *)
(***************************************************************************)
EXTENDS Integers, Sequences, FiniteSets, TLC

\* ------------------------------------------------------------------------
\* Bounds of the model
\* ------------------------------------------------------------------------

\* AUTOINCREMENT row ids handed out in one behaviour (guards every upsert).
MaxId == 2

\* Commits made on the branch when the sync adapter is called on its own
\* (guards CommitAndPush).
MaxCommits == 2

\* Longest text of a note drawn without a frontmatter block (PlainTexts).
MaxPlainLen == 3

\* Longest line drawn for a frontmatter block (BlockLines).
MaxLineLen == 4

\* Longest file content an append may produce (guards append_to_note).
MaxFileLen == 9

\* ------------------------------------------------------------------------
\* Characters and generic string functions (Python str semantics)
\* ------------------------------------------------------------------------

NL == "\n"

IsSpaceCh(c) == c \in {" ", NL, "\t"}

UpperToLower == [c \in {"A", "B", "C", "E", "F", "N", "O", "P"} |->
                   CASE c = "A" -> "a" [] c = "B" -> "b" [] c = "C" -> "c"
                     [] c = "E" -> "e" [] c = "F" -> "f" [] c = "N" -> "n"
                     [] c = "O" -> "o" [] c = "P" -> "p"]

\* str.lower() on one character
LowerCh(c) == IF c \in DOMAIN UpperToLower THEN UpperToLower[c] ELSE c

\* regex class \w : letters, digits, underscore
IsWordCh(c) == c \in {"a", "b", "d", "e", "g", "i", "k", "l", "m", "o", "s", "t",
                      "v", "x", "y", "z", "A", "B", "E", "T",
                      "0", "1", "2", "_"}

\* s.startswith(p)
StartsWith(s, p) == /\ Len(p) <= Len(s)
                    /\ SubSeq(s, 1, Len(p)) = p

\* s[i:] with a 1-based i
From(s, i) == SubSeq(s, i, Len(s))

\* s.find(p, from): least index >= from where p occurs in s, 0 if none
Find(s, p, from) ==
    LET hits == {i \in from..(Len(s) - Len(p) + 1) : SubSeq(s, i, i + Len(p) - 1) = p}
    IN  IF hits = {} THEN 0 ELSE CHOOSE i \in hits : \A j \in hits : i <= j

\* s.lstrip(), s.rstrip(), s.strip() with a character class
RECURSIVE LStripOf(_, _)
LStripOf(s, cls) == IF s # <<>> /\ Head(s) \in cls THEN LStripOf(Tail(s), cls) ELSE s

RECURSIVE RStripOf(_, _)
RStripOf(s, cls) == IF s # <<>> /\ s[Len(s)] \in cls
                    THEN RStripOf(SubSeq(s, 1, Len(s) - 1), cls) ELSE s

StripOf(s, cls) == RStripOf(LStripOf(s, cls), cls)

WhiteSpace == {" ", NL, "\t"}

Strip(s) == StripOf(s, WhiteSpace)

\* an append that forgets existing_content.rstrip()
RStripForgotten(s) == s

\* existing_content.rstrip()
RStrip(s) == RStripOf(s, WhiteSpace)

\* s.split(sep) for a one-character separator: always at least one part
RECURSIVE SplitCh(_, _)
SplitCh(s, sep) ==
    LET i == Find(s, <<sep>>, 1)
    IN  IF i = 0 THEN <<s>>
        ELSE <<SubSeq(s, 1, i - 1)>> \o SplitCh(From(s, i + 1), sep)

\* sep.join(parts)
RECURSIVE Join(_, _)
Join(parts, sep) ==
    IF parts = <<>> THEN <<>>
    ELSE IF Len(parts) = 1 THEN parts[1]
    ELSE parts[1] \o sep \o Join(Tail(parts), sep)

\* ------------------------------------------------------------------------
\* Frontmatter Parser (database.py: extract_frontmatter)
\* ------------------------------------------------------------------------

Dashes == <<"-", "-", "-">>

\* dict[key] = value on an insertion-ordered dict, kept as a sequence of
\* <<key, value>> pairs: an existing key keeps its position
DictSet(d, key, value) ==
    IF \E i \in 1..Len(d) : d[i][1] = key
    THEN [i \in 1..Len(d) |-> IF d[i][1] = key THEN <<key, value>> ELSE d[i]]
    ELSE Append(d, <<key, value>>)

\* dict.get(key, default)
DictGet(d, key, default) ==
    IF \E i \in 1..Len(d) : d[i][1] = key
    THEN d[CHOOSE i \in 1..Len(d) : d[i][1] = key][2]
    ELSE default

\* value.strip().strip('"').strip("'")
UnquoteValue(v) == StripOf(StripOf(Strip(v), {"\""}), {"'"})

\* the loop over the lines of the block: a line without ':' is skipped
RECURSIVE ParseFrontmatterLines(_, _)
ParseFrontmatterLines(lines, d) ==
    IF lines = <<>> THEN d
    ELSE LET line == Head(lines)
             c    == Find(line, <<":">>, 1)
         IN  IF c = 0 THEN ParseFrontmatterLines(Tail(lines), d)
             ELSE ParseFrontmatterLines(
                      Tail(lines),
                      DictSet(d, Strip(SubSeq(line, 1, c - 1)),
                              UnquoteValue(From(line, c + 1))))

\* a parser that hands the whole text on as the body
ExtractFrontmatterBodyWhole(content) == [fm |-> <<>>, body |-> content]

\* extract_frontmatter(content) -> (frontmatter, body)
ExtractFrontmatter(content) ==
    LET second == Find(content, Dashes, Len(Dashes) + 1)
    IN  IF StartsWith(content, Dashes) /\ second # 0
        THEN [fm   |-> ParseFrontmatterLines(
                           SplitCh(Strip(SubSeq(content, Len(Dashes) + 1, second - 1)), NL),
                           <<>>),
              body |-> Strip(From(content, second + Len(Dashes)))]
        ELSE [fm |-> <<>>, body |-> content]

\* ------------------------------------------------------------------------
\* Note Indexer (database.py: index_file)
\* ------------------------------------------------------------------------

\* A byte that open(..., encoding='utf-8').read() cannot decode
BadByte == "\\xff"

\* f.read() returns (does not raise UnicodeDecodeError)
Readable(content) == \A i \in 1..Len(content) : content[i] # BadByte

KeyTitle == <<"t", "i", "t", "l", "e">>

KeyTags == <<"t", "a", "g", "s">>

\* re.search(r'^#\s+(.+)$', body, re.MULTILINE): group 1 of the leftmost
\* match, <<>> when there is none.  \s+ is greedy and may run over line
\* ends; it backs off until a non-newline character follows it.
HeadingTitle(body) ==
    LET n       == Len(body)
        Gaps(i) == {k \in 1..(n - i) :
                       /\ \A j \in 1..k : IsSpaceCh(body[i + j])
                       /\ i + k + 1 <= n
                       /\ body[i + k + 1] # NL}
        starts  == {i \in 1..n : /\ body[i] = "#"
                                 /\ (i = 1 \/ body[i - 1] = NL)
                                 /\ Gaps(i) # {}}
    IN  IF starts = {} THEN <<>>
        ELSE LET i   == CHOOSE a \in starts : \A b \in starts : a <= b
                 k   == CHOOSE a \in Gaps(i) : \A b \in Gaps(i) : a >= b
                 beg == i + k + 1
                 eol == Find(body, <<NL>>, beg)
             IN  SubSeq(body, beg, IF eol = 0 THEN n ELSE eol - 1)

\* Path(p).name
RECURSIVE FileName(_)
FileName(p) ==
    LET i == Find(p, <<"/">>, 1) IN IF i = 0 THEN p ELSE FileName(From(p, i + 1))

\* last index of '.' in a name, 0 if none
RECURSIVE RFindDot(_)
RFindDot(name) ==
    IF name = <<>> THEN 0
    ELSE IF name[Len(name)] = "." THEN Len(name)
    ELSE RFindDot(SubSeq(name, 1, Len(name) - 1))

\* Path(p).stem
Stem(p) ==
    LET name == FileName(p)
        i    == RFindDot(name)
    IN  IF 1 < i /\ i < Len(name) THEN SubSeq(name, 1, i - 1) ELSE name

\* index_file(filepath) for a file holding `content` (readable); the
\* created_at / modified_at / indexed_at stamps are left out of the record
IndexFile(filepath, content) ==
    LET parsed == ExtractFrontmatter(content)
        fmt    == DictGet(parsed.fm, KeyTitle, <<>>)
        head   == HeadingTitle(parsed.body)
    IN  [filepath |-> filepath,
         filename |-> FileName(filepath),
         title    |-> IF fmt # <<>> THEN fmt
                      ELSE IF head # <<>> THEN head
                      ELSE Stem(filepath),
         content  |-> parsed.body,
         tags     |-> DictGet(parsed.fm, KeyTags, <<>>)]

\* ------------------------------------------------------------------------
\* File Mutation Operations: the pure parts (database.py)
\* ------------------------------------------------------------------------

\* a sanitizer that forgets part.lower(): titles differing in case no
\* longer meet on one path
LowerForgotten(s) == s

\* part.lower()
Lower(s) == [i \in 1..Len(s) |-> LowerCh(s[i])]

\* re.sub(r'[^\w\s-]', '', s)
RECURSIVE KeepSafe(_)
KeepSafe(s) ==
    IF s = <<>> THEN <<>>
    ELSE IF IsWordCh(Head(s)) \/ IsSpaceCh(Head(s)) \/ Head(s) = "-"
         THEN <<Head(s)>> \o KeepSafe(Tail(s))
         ELSE KeepSafe(Tail(s))

\* re.sub(r'[-\s]+', '-', s)
RECURSIVE CollapseHyphens(_)
CollapseHyphens(s) ==
    IF s = <<>> THEN <<>>
    ELSE IF Head(s) \in WhiteSpace \cup {"-"}
         THEN <<"-">> \o CollapseHyphens(LStripOf(Tail(s), WhiteSpace \cup {"-"}))
         ELSE <<Head(s)>> \o CollapseHyphens(Tail(s))

\* the two re.sub calls and .strip('-') applied to one segment of the title
SanitizePart(part) == StripOf(CollapseHyphens(KeepSafe(Lower(part))), {"-"})

\* a rejection that only knows '.' and '..' and lets the empty part through
PartRejectedDotsOnly(sanitized) == sanitized \in {<<".">>, <<".", ".">>}

\* `not sanitized or sanitized in ('.', '..')`
PartRejected(sanitized) ==
    sanitized = <<>> \/ sanitized \in {<<".">>, <<".", ".">>}

\* sanitized_parts for a title (every part, before any is rejected)
SanitizedParts(title) ==
    LET parts == SplitCh(title, "/")
    IN  [i \in 1..Len(parts) |-> SanitizePart(parts[i])]

\* str(Path(kb_dir) / relative_dir / filename)
TargetPath(kbDir, parts) ==
    Join(<<kbDir>> \o SubSeq(parts, 1, Len(parts) - 1)
                   \o <<parts[Len(parts)] \o <<".", "m", "d">>>>, <<"/">>)

\* full_content of create_note_file
CreateContent(title, content, tags) ==
    LET frontmatter ==
            IF tags # <<>>
            THEN Dashes \o <<NL>> \o KeyTitle \o <<":", " ">> \o title \o <<NL>>
                        \o KeyTags \o <<":", " ">> \o tags \o <<NL>>
                        \o Dashes \o <<NL, NL>>
            ELSE <<>>
    IN  frontmatter \o <<"#", " ">> \o title \o <<NL, NL>> \o content

\* the "key: value" lines of update_note_file
FrontmatterLines(fm) == [i \in 1..Len(fm) |-> fm[i][1] \o <<":", " ">> \o fm[i][2]]

\* full_content of update_note_file, from the old content of the file
UpdateContent(old, content) ==
    LET fm == ExtractFrontmatter(old).fm
    IN  IF fm # <<>>
        THEN Join(<<Dashes>> \o FrontmatterLines(fm) \o <<Dashes \o <<NL>>>>, <<NL>>)
                 \o <<NL>> \o content
        ELSE content

\* updated_content of append_to_note_file
AppendContent(existing, content) == RStrip(existing) \o <<NL, NL>> \o content

\* ------------------------------------------------------------------------
\* State
\* ------------------------------------------------------------------------

VARIABLES
    fs,       \* real path -> content of every regular file on disk
    dirs,     \* real paths of the existing directories
    link,     \* target of the symbolic link KbDir/l (NoLink: no such link)
    gitDirs,  \* directories that hold a .git marker
    repo,     \* the repository: HEAD detached?, unpushed commits?, HEAD tree,
              \* commits on the branch, credential configured?, askpass
              \* script on disk?
    notes,    \* rows of table notes
    fts,      \* rows of the notes_fts index, by rowid
    nextId,   \* next AUTOINCREMENT id of table notes
    summaries,\* rows of table note_summaries, the cache of get_note_summary
    last      \* the last call: its arguments and what it returned

vars == <<fs, dirs, link, gitDirs, repo, notes, fts, nextId, summaries, last>>

\* KB_DIR
KbDir == <<"/", "k">>

\* a directory beside KbDir whose name starts with KbDir's name
SiblingDir == <<"/", "k", "2">>

\* a directory elsewhere
OutsideDir == <<"/", "o">>

SubDir == KbDir \o <<"/", "d">>

LinkPath == KbDir \o <<"/", "l">>

NoLink == <<>>

LinkTargets == {NoLink, SiblingDir, OutsideDir, SubDir}

EmptyTree == [p \in {} |-> <<>>]

\* ------------------------------------------------------------------------
\* File system (pathlib / open)
\* ------------------------------------------------------------------------

\* Path(p).resolve(): the link KbDir/l replaced by its target
Resolve(p) ==
    IF link # NoLink /\ (p = LinkPath \/ StartsWith(p, LinkPath \o <<"/">>))
    THEN link \o From(p, Len(LinkPath) + 1)
    ELSE p

\* an existence test that answers yes for every path
ExistsAlways(p) == TRUE

\* Path(p).exists()
Exists(p) == Resolve(p) \in DOMAIN fs \/ Resolve(p) \in dirs

IsFile(p) == Resolve(p) \in DOMAIN fs

\* the content open(p).read() sees
FileAt(p) == fs[Resolve(p)]

\* every proper ancestor directory of a path, the file system root excluded
Ancestors(p) == {SubSeq(p, 1, i - 1) : i \in {j \in 2..Len(p) : p[j] = "/"}}

\* p lies below directory d
Below(p, d) == StartsWith(p, d \o <<"/">>)

EndsWith(s, suffix) ==
    /\ Len(suffix) <= Len(s)
    /\ SubSeq(s, Len(s) - Len(suffix) + 1, Len(s)) = suffix

\* open(p, 'w') then f.write(c) on a file map
WriteFile(f, p, c) == [q \in DOMAIN f \cup {p} |-> IF q = p THEN c ELSE f[q]]

RemoveFiles(f, gone) == [q \in DOMAIN f \ gone |-> f[q]]

\* kb_path.rglob("*.md") as the strings index_directory collects: the
\* files below KbDir itself (a linked directory is not descended into)
RGlobMdIn(f) == {p \in DOMAIN f : Below(p, KbDir) /\ EndsWith(p, <<".", "m", "d">>)}

\* the same over the files as they are now
RGlobMd == RGlobMdIn(fs)

\* ------------------------------------------------------------------------
\* Search Index Store (database.py: the two INSERT OR REPLACE statements)
\* ------------------------------------------------------------------------

NoteRow(id, rec) ==
    [id |-> id, filepath |-> rec.filepath, filename |-> rec.filename,
     title |-> rec.title, content |-> rec.content, tags |-> rec.tags]

FtsRow(row) ==
    [rowid |-> row.id, filepath |-> row.filepath, filename |-> row.filename,
     title |-> row.title, content |-> row.content, tags |-> row.tags]

\* INSERT OR REPLACE INTO notes: the row that holds the UNIQUE filepath is
\* deleted and a new row is inserted under the next AUTOINCREMENT id
NotesAfterUpsert(rows, id, rec) ==
    {n \in rows : n.filepath # rec.filepath} \cup {NoteRow(id, rec)}

\* INSERT OR REPLACE INTO notes_fts (rowid, ...) SELECT id, ... FROM notes
\* WHERE filepath = ?: replaces the index row of that rowid only
FtsAfterUpsert(rows, notesNow, filepath) ==
    LET src == {n \in notesNow : n.filepath = filepath}
    IN  {r \in rows : \A n \in src : r.rowid # n.id} \cup {FtsRow(n) : n \in src}

\* an upsert whose transaction is never committed
StoreAfterUpsertLost(st, rec) == st

\* the store after upsert_note_to_db(note_data)
StoreAfterUpsert(st, rec) ==
    LET n2 == NotesAfterUpsert(st.notes, st.nextId, rec)
    IN  [notes |-> n2, fts |-> FtsAfterUpsert(st.fts, n2, rec.filepath),
         nextId |-> st.nextId + 1]

\* the two DELETE statements of index_directory for one orphaned filepath
StoreAfterDelete(st, filepath) ==
    LET ids == {n.id : n \in {m \in st.notes : m.filepath = filepath}}
    IN  [notes |-> {n \in st.notes : n.filepath # filepath},
         fts |-> {r \in st.fts : r.rowid \notin ids},
         nextId |-> st.nextId]

\* every order in which a set can be iterated
Orders(S) ==
    {o \in [1..Cardinality(S) -> S] : \A i, j \in 1..Cardinality(S) : o[i] = o[j] => i = j}

\* the unicode61 tokenizer of the fts5 table: letters and digits make
\* tokens, every other character separates them
IsTokenCh(c) == IsWordCh(c) /\ c # "_"

\* the tokens of a text, case folded
RECURSIVE TokensOf(_, _)
TokensOf(s, cur) ==
    IF s = <<>> THEN (IF cur = <<>> THEN {} ELSE {cur})
    ELSE IF IsTokenCh(Head(s)) THEN TokensOf(Tail(s), cur \o <<LowerCh(Head(s))>>)
    ELSE (IF cur = <<>> THEN {} ELSE {cur}) \cup TokensOf(Tail(s), <<>>)

\* the tokens the index holds for one row, over its five columns
RowTokens(r) ==
    TokensOf(r.filepath, <<>>) \cup TokensOf(r.filename, <<>>) \cup TokensOf(r.title, <<>>)
        \cup TokensOf(r.content, <<>>) \cup TokensOf(r.tags, <<>>)

\* notes_fts MATCH ? for a query of one bare word
Matches(r, query) == TokensOf(query, <<>>) \subseteq RowTokens(r) /\ TokensOf(query, <<>>) # {}

\* FROM notes_fts JOIN notes n ON notes_fts.rowid = n.id WHERE notes_fts
\* MATCH ?: the rows of notes the query selects
SearchHits(noteRows, ftsRows, query) ==
    {n \in noteRows : \E r \in ftsRows : r.rowid = n.id /\ Matches(r, query)}

\* LIMIT ? on a result of n rows: a negative limit means no limit
LimitedLen(n, limit) == IF limit < 0 \/ limit > n THEN n ELSE limit

\* search_notes_db(query, db, limit): every result the statement can give;
\* the order is that of rank, which the rows here do not fix
SearchNotesDb(noteRows, ftsRows, query, limit) ==
    LET hits == SearchHits(noteRows, ftsRows, query)
    IN  {SubSeq(o, 1, LimitedLen(Cardinality(hits), limit)) : o \in Orders(hits)}

\* get_recent_notes(db, limit): ORDER BY modified_at DESC LIMIT ?; rows of
\* equal modified_at come in either order
GetRecentNotes(noteRows, limit) ==
    LET sorted == {o \in Orders(noteRows) :
                      \A i, j \in 1..Len(o) : i < j => o[i].modified_at >= o[j].modified_at}
    IN  {SubSeq(o, 1, LimitedLen(Cardinality(noteRows), limit)) : o \in sorted}

Store == [notes |-> notes, fts |-> fts, nextId |-> nextId]

SetStore(st) == /\ notes' = st.notes
                /\ fts' = st.fts
                /\ nextId' = st.nextId

\* ------------------------------------------------------------------------
\* Remote Sync Adapter (database.py: git_commit_and_push, git_pull_from_remote)
\* ------------------------------------------------------------------------

\* the working tree of the repository at `dir`
Tree(dir, f) == [p \in {q \in DOMAIN f : Below(q, Resolve(dir))} |-> f[p]]

\* what the remote answers to the pull-with-rebase and push of one call
SyncOutcomes == {"ok", "network", "conflict"}

\* GIT_TOKEN is set and origin is an https GitHub URL: the token is written
\* to a temporary askpass script for the git subprocesses
InjectCredential(r) == IF r.token /\ r.origin THEN [r EXCEPT !.askpass = TRUE] ELSE r

\* a clean-up that leaves the askpass script where it is
FinallyUnlinkForgotten(r) == r

\* the finally clause: os.unlink of the askpass script
FinallyUnlink(r) == [r EXCEPT !.askpass = FALSE]

\* a sync that takes the commit back when the pull or the push fails
GitSyncRollingBack(dir, f, sync) ==
    IF sync = "ok"
    THEN [ok |-> TRUE, msg |-> "Successfully committed and pushed changes",
          repo |-> [repo EXCEPT !.head = Tree(dir, f), !.commits = @ + 1, !.unpushed = FALSE]]
    ELSE [ok |-> FALSE, msg |-> "Saved locally but couldn't sync to GitHub", repo |-> repo]

\* repo.index.commit(message), then pull with rebase and push under the
\* injected credential; a failed rebase leaves HEAD detached
GitSyncAfterCommit(dir, f, sync) ==
    LET committed == InjectCredential([repo EXCEPT !.head = Tree(dir, f), !.commits = @ + 1,
                                                   !.unpushed = TRUE])
    IN  IF ~repo.origin
        THEN [ok |-> FALSE, msg |-> "Unexpected error", repo |-> FinallyUnlink(committed)]
        ELSE IF sync = "network"
        THEN [ok |-> FALSE,
              msg |-> "Saved locally but couldn't sync to GitHub (no internet connection)",
              repo |-> FinallyUnlink(committed)]
        ELSE IF sync = "conflict"
        THEN [ok |-> FALSE, msg |-> "Saved locally but couldn't sync to GitHub",
              repo |-> FinallyUnlink([committed EXCEPT !.detached = TRUE])]
        ELSE [ok |-> TRUE, msg |-> "Successfully committed and pushed changes",
              repo |-> FinallyUnlink([committed EXCEPT !.unpushed = FALSE])]

\* a test for changes that always finds some
NothingToCommitNever(dir, f) == FALSE

\* `not repo.index.diff("HEAD") and not repo.untracked_files` after
\* repo.git.add(A=True)
NothingToCommit(dir, f) == Tree(dir, f) = repo.head

\* git_commit_and_push(dir, message) with the files `f` on disk while the
\* remote answers `sync`: every (success, message) it can return, with the
\* repository afterwards
GitCommitAndPushOn(dir, f, sync) ==
    IF Resolve(dir) \notin gitDirs
    THEN {[ok |-> FALSE, msg |-> "Not a git repository", repo |-> repo]}
    ELSE IF repo.detached
    THEN {[ok |-> FALSE, msg |-> "Not on a branch (detached HEAD)", repo |-> repo]}
    ELSE IF NothingToCommit(dir, f)
    THEN {[ok |-> TRUE, msg |-> "No changes to commit", repo |-> repo]}
    ELSE {[ok |-> FALSE, msg |-> "Failed to create local commit", repo |-> repo],
          GitSyncAfterCommit(dir, f, sync)}

\* git_commit_and_push(dir, message), whatever the remote answers
GitCommitAndPush(dir, f) ==
    UNION {GitCommitAndPushOn(dir, f, sync) : sync \in SyncOutcomes}

\* the note a commit of the remote adds
RemotePath == KbDir \o <<"/", "c", ".", "m", "d">>

RemoteContent == <<"y">>

\* the upstream branch holds a commit the local branch lacks
RemoteAhead(r) == RemotePath \notin DOMAIN r.head

\* what the remote and git answer in one pull: the fetch fails (network or
\* other), it succeeds and the commits behind are counted, or it succeeds
\* and the count raises; for a branch that is behind, the rebase succeeds,
\* stops on a conflict, or loses the connection
PullAnswers ==
    {"fetch_network", "fetch_error", "counted", "count_raises", "rebase_conflict",
     "rebase_network"}

\* git pull --rebase can start: no tracked file is modified or deleted and
\* the incoming note overwrites no untracked file
CleanForRebase(r, f) ==
    /\ \A p \in DOMAIN r.head : p \in DOMAIN f /\ f[p] = r.head[p]
    /\ RemotePath \notin DOMAIN f

\* an abort that is never attempted: the stopped rebase stays
RebaseAbortForgotten(r) == r

\* repo.git.rebase(abort=True): the branch is checked out again as it was
RebaseAbort(r) == [r EXCEPT !.detached = FALSE]

\* git_pull_from_remote(KbDir) under one answer: the (success, message) it
\* returns, with the repository and the files afterwards
GitPullOn(answer) ==
    LET Result(ok, msg, r, f) == [ok |-> ok, msg |-> msg, repo |-> r, files |-> f]
        cred == InjectCredential(repo)
    IN  IF KbDir \notin dirs
        THEN Result(FALSE, "Unexpected error", repo, fs)
        ELSE IF KbDir \notin gitDirs
        THEN Result(FALSE, "Not a git repository", repo, fs)
        ELSE IF repo.detached
        THEN Result(FALSE, "Not on a branch (detached HEAD)", repo, fs)
        ELSE IF ~repo.origin
        THEN Result(FALSE, "Unexpected error", repo, fs)
        ELSE IF answer = "fetch_network"
        THEN Result(FALSE, "Couldn't sync with GitHub (no internet connection)",
                    FinallyUnlink(cred), fs)
        ELSE IF answer = "fetch_error"
        THEN Result(FALSE, "Couldn't sync with GitHub", FinallyUnlink(cred), fs)
        ELSE IF answer = "count_raises" \/ ~RemoteAhead(repo)
        THEN Result(TRUE, "Already up to date", FinallyUnlink(cred), fs)
        ELSE IF answer = "rebase_network"
        THEN Result(FALSE, "Couldn't complete sync with GitHub (no internet connection)",
                    FinallyUnlink(RebaseAbort(cred)), fs)
        ELSE IF answer = "rebase_conflict" \/ ~CleanForRebase(repo, Tree(KbDir, fs))
        THEN Result(FALSE, "Git pull failed",
                    FinallyUnlink(RebaseAbort([cred EXCEPT !.detached = TRUE])), fs)
        ELSE Result(TRUE, "Pulled 1 commit(s)",
                    FinallyUnlink([cred EXCEPT !.head = WriteFile(@, RemotePath, RemoteContent),
                                               !.commits = @ + 1]),
                    WriteFile(fs, RemotePath, RemoteContent))

\* git_pull_from_remote(KbDir), whatever the remote answers
GitPullFromRemote == {GitPullOn(answer) : answer \in PullAnswers}

\* ------------------------------------------------------------------------
\* Sync failure classification (database.py: the except GitCommandError
\* handlers of git_commit_and_push and git_pull_from_remote)
\* ------------------------------------------------------------------------

\* the indicator list, the same at every handler
IndNetwork == <<"n", "e", "t", "w", "o", "r", "k">>
IndConnection == <<"c", "o", "n", "n", "e", "c", "t", "i", "o", "n">>
IndTimedOut == <<"t", "i", "m", "e", "d", " ", "o", "u", "t">>
IndCouldNotResolve ==
    <<"c", "o", "u", "l", "d", " ", "n", "o", "t", " ", "r", "e", "s", "o", "l", "v",
      "e">>
IndFailedToConnect ==
    <<"f", "a", "i", "l", "e", "d", " ", "t", "o", " ", "c", "o", "n", "n", "e", "c",
      "t">>

NetworkIndicators ==
    {IndNetwork, IndConnection, IndTimedOut, IndCouldNotResolve, IndFailedToConnect}

\* a classifier that knows no indicator
IsNetworkErrorNever(errorStr) == FALSE

\* error_str = str(e).lower(); any(indicator in error_str for indicator in [...])
IsNetworkError(errorStr) ==
    \E indicator \in NetworkIndicators : Find(Lower(errorStr), indicator, 1) # 0

\* the handlers: pull and push of git_commit_and_push share one, fetch and
\* pull --rebase of git_pull_from_remote have one each
HandlerOf(fn, step) ==
    IF fn = "commit_and_push" THEN "sync"
    ELSE IF step = "fetch" THEN "fetch" ELSE "rebase"

\* the (success, message) a handler returns for the error text: the message
\* is its fixed wording, with str(e) inside it for an error that is not
\* taken for a network failure
FailureResult(handler, errorStr) ==
    LET network == IsNetworkError(errorStr)
        wording ==
            IF handler = "sync"
            THEN IF network
                 THEN "Saved locally but couldn't sync to GitHub (no internet connection)"
                 ELSE "Saved locally but couldn't sync to GitHub"
            ELSE IF handler = "fetch"
            THEN IF network
                 THEN "Couldn't sync with GitHub (no internet connection)"
                 ELSE "Couldn't sync with GitHub"
            ELSE IF network
                 THEN "Couldn't complete sync with GitHub (no internet connection)"
                 ELSE "Git pull failed"
    IN  [ok |-> FALSE, msg |-> wording, raw |-> IF network THEN <<>> ELSE errorStr]

\* what git writes to stderr for each cause of failure
StderrRefused ==
    <<"C", "o", "n", "n", "e", "c", "t", "i", "o", "n", " ", "r", "e", "f", "u", "s",
      "e", "d">>
StderrDns ==
    <<"C", "o", "u", "l", "d", " ", "n", "o", "t", " ", "r", "e", "s", "o", "l", "v",
      "e", " ", "h", "o", "s", "t">>
StderrTimeout ==
    <<"O", "p", "e", "r", "a", "t", "i", "o", "n", " ", "t", "i", "m", "e", "d", " ",
      "o", "u", "t">>
StderrAuth ==
    <<"A", "u", "t", "h", "e", "n", "t", "i", "c", "a", "t", "i", "o", "n", " ", "f",
      "a", "i", "l", "e", "d">>
StderrConflict ==
    <<"c", "o", "u", "l", "d", " ", "n", "o", "t", " ", "a", "p", "p", "l", "y", " ">>

\* the branch names, and the subjects of the local commit a rebase stops at
\* ("Created note: <title>" for the titles a and network)
BranchMain == <<"m", "a", "i", "n">>
BranchNetwork == <<"n", "e", "t", "w", "o", "r", "k">>
BranchDev == <<"d", "e", "v">>
SubjectA ==
    <<"C", "r", "e", "a", "t", "e", "d", " ", "n", "o", "t", "e", ":", " ", "a">>
SubjectNetwork ==
    <<"C", "r", "e", "a", "t", "e", "d", " ", "n", "o", "t", "e", ":", " ", "n", "e",
      "t", "w", "o", "r", "k">>

Branches == {BranchMain, BranchNetwork, BranchDev}

Subjects == {SubjectA, SubjectNetwork}

\* the causes of a failed network step and the text of each
NetworkCauses == {"refused", "dns", "timeout"}

OtherCauses == {"auth", "conflict"}

StderrOf(cause, subject) ==
    CASE cause = "refused" -> StderrRefused
      [] cause = "dns" -> StderrDns
      [] cause = "timeout" -> StderrTimeout
      [] cause = "auth" -> StderrAuth
      [] cause = "conflict" -> StderrConflict \o subject

\* str(e) of the GitCommandError: the command line, which names the branch,
\* and the stderr of git
CmdGit == <<"g", "i", "t", " ">>
CmdOrigin == <<" ", "o", "r", "i", "g", "i", "n", " ">>
StepFetch == <<"f", "e", "t", "c", "h">>
StepPull == <<"p", "u", "l", "l">>
StepPush == <<"p", "u", "s", "h">>

StepWord(step) ==
    CASE step = "fetch" -> StepFetch [] step = "pull" -> StepPull [] step = "push" -> StepPush

ErrorStr(step, branch, cause, subject) ==
    CmdGit \o StepWord(step) \o CmdOrigin \o branch \o <<NL>> \o StderrOf(cause, subject)

\* the network steps of each function
NetworkSteps ==
    {<<"commit_and_push", "pull">>, <<"commit_and_push", "push">>,
     <<"pull", "fetch">>, <<"pull", "pull">>}

\* a network step of a sync call on `branch` fails for `cause`; a rebase is
\* what stops on a conflict, at the local commit with `subject`
SyncStepFails(fn, step, branch, cause, subject) ==
    /\ <<fn, step>> \in NetworkSteps
    /\ cause = "conflict" => step = "pull"
    /\ LET e == ErrorStr(step, branch, cause, subject)
           g == FailureResult(HandlerOf(fn, step), e)
       IN  last' = [op |-> "sync_error", fn |-> fn, step |-> step, branch |-> branch,
                    cause |-> cause, subject |-> subject, error |-> e,
                    ok |-> g.ok, msg |-> g.msg, raw |-> g.raw]
    /\ UNCHANGED <<fs, dirs, link, gitDirs, repo, notes, fts, nextId>>

\* extract_frontmatter(content) on a file whose block holds the one line
ParseBlockLine(line) ==
    /\ last' = [op |-> "parse", line |-> line,
                fm |-> ExtractFrontmatter(Dashes \o <<NL>> \o line \o <<NL>> \o Dashes \o <<NL>>).fm]
    /\ UNCHANGED <<fs, dirs, link, gitDirs, repo, notes, fts, nextId>>

\* ------------------------------------------------------------------------
\* Summary cache (database.py: generate_note_summary, get_note_summary)
\* ------------------------------------------------------------------------

\* seq[:n]
UpTo(seq, n) == SubSeq(seq, 1, IF n <= Len(seq) THEN n ELSE Len(seq))

\* the stripped lines a summary is built from: of the lines given, those
\* that are not blank and do not start with '#' once stripped, until three
\* have been collected
RECURSIVE SummaryLines(_, _)
SummaryLines(lines, got) ==
    IF lines = <<>> \/ Len(got) >= 3 THEN got
    ELSE IF Strip(Head(lines)) # <<>> /\ ~StartsWith(Strip(Head(lines)), <<"#">>)
         THEN SummaryLines(Tail(lines), Append(got, Strip(Head(lines))))
         ELSE SummaryLines(Tail(lines), got)

\* [line.strip('# ').strip() for line in lines if line.startswith('#')]
RECURSIVE Headers(_)
Headers(lines) ==
    IF lines = <<>> THEN <<>>
    ELSE IF StartsWith(Head(lines), <<"#">>)
         THEN <<Strip(StripOf(Head(lines), {"#", " "}))>> \o Headers(Tail(lines))
         ELSE Headers(Tail(lines))

\* generate_note_summary: the summary and the key topics it computes
SummaryOf(content) ==
    UpTo(Join(SummaryLines(UpTo(SplitCh(Strip(content), NL), 10), <<>>), <<" ">>), 300)

KeyTopicsOf(content) ==
    Join(UpTo(Headers(SplitCh(Strip(content), NL)), 5), <<",", " ">>)

\* generate_note_summary(filepath, content): INSERT OR REPLACE of the row
\* of filepath in note_summaries
GenerateNoteSummary(filepath, content) ==
    {r \in summaries : r.filepath # filepath}
        \cup {[filepath   |-> filepath,
               summary    |-> SummaryOf(content),
               key_topics |-> KeyTopicsOf(content)]}

NoteNotFound == <<"N", "o", "t", "e", " ", "n", "o", "t", " ", "f", "o", "u", "n", "d">>

\* get_note_summary(filepath): the cached row when there is one; otherwise
\* the summary generated from the record of filepath, returned with empty
\* key topics, or 'Note not found'.  last_updated, a clock reading, is left
\* out of the result.
GetNoteSummary(filepath) ==
    LET cached == {r \in summaries : r.filepath = filepath}
        rows   == {n \in notes : n.filepath = filepath}
    IN  /\ summaries' =
              IF cached = {} /\ rows # {}
              THEN GenerateNoteSummary(filepath, (CHOOSE n \in rows : TRUE).content)
              ELSE summaries
        /\ last' = [op |-> "get_summary", arg |-> filepath,
                    cached |-> cached # {},
                    summary |->
                        IF cached # {} THEN (CHOOSE r \in cached : TRUE).summary
                        ELSE IF rows = {} THEN NoteNotFound
                        ELSE SummaryOf((CHOOSE n \in rows : TRUE).content),
                    key_topics |->
                        IF cached # {} THEN (CHOOSE r \in cached : TRUE).key_topics
                        ELSE <<>>]
        /\ UNCHANGED <<fs, dirs, link, gitDirs, repo, notes, fts, nextId>>

\* search_notes(query, limit): the rows search_notes_db returned
SearchNotes(query, limit) ==
    \E rows \in SearchNotesDb(notes, fts, query, limit) :
        /\ last' = [op |-> "search", query |-> query, limit |-> limit, rows |-> rows]
        /\ UNCHANGED <<fs, dirs, link, gitDirs, repo, notes, fts, nextId>>

\* list_recent_notes(limit): the rows get_recent_notes returned
ListRecentNotes(limit) ==
    \E rows \in GetRecentNotes(notes, limit) :
        /\ last' = [op |-> "recent", query |-> <<>>, limit |-> limit, rows |-> rows]
        /\ UNCHANGED <<fs, dirs, link, gitDirs, repo, notes, fts, nextId>>

\* index_file(filepath) on the note as it is on disk
IndexNote(filepath) ==
    /\ IsFile(filepath)
    /\ Readable(FileAt(filepath))
    /\ last' = [op |-> "index", path |-> filepath, rec |-> IndexFile(filepath, FileAt(filepath))]
    /\ UNCHANGED <<fs, dirs, link, gitDirs, repo, notes, fts, nextId>>

\* a call of git_commit_and_push(KB_DIR, message) while the remote answers
\* `sync`
CommitAndPush(sync) ==
    \E g \in GitCommitAndPushOn(KbDir, fs, sync) :
        /\ g.repo.commits <= MaxCommits
        /\ repo' = g.repo
        /\ last' = [op |-> "commit_and_push", remote |-> sync, ok |-> g.ok, msg |-> g.msg]
        /\ UNCHANGED <<fs, dirs, link, gitDirs, notes, fts, nextId>>

\* a call of git_pull_from_remote(KB_DIR)
Pull(answer) ==
    LET g == GitPullOn(answer)
    IN  /\ g.repo.commits <= MaxCommits
        /\ repo' = g.repo
        /\ fs' = g.files
        /\ last' = [op |-> "pull", remote |-> answer, ok |-> g.ok, msg |-> g.msg]
        /\ UNCHANGED <<dirs, link, gitDirs, notes, fts, nextId>>

\* a call of the adapter is blocked in a git subprocess that talks to the
\* remote
Waiting == last.op \in {"pull", "commit_and_push"} /\ last.phase = "waiting"

\* the subprocess has ended and the call has yet to return
Answered == last.op \in {"pull", "commit_and_push"} /\ last.phase = "answered"

\* git_pull_from_remote(KB_DIR) reaches origin.fetch: the call waits for
\* the subprocess, which no timeout bounds
BeginPull ==
    /\ ~Waiting /\ ~Answered
    /\ KbDir \in gitDirs /\ ~repo.detached /\ repo.origin
    /\ repo.commits < MaxCommits
    /\ last' = [op |-> "pull", phase |-> "waiting"]
    /\ UNCHANGED <<fs, dirs, link, gitDirs, repo, notes, fts, nextId>>

\* git_commit_and_push(KB_DIR, message) reaches origin.pull after its
\* commit: the call waits for the subprocess, which no timeout bounds.
\* Nothing else acts on the repository while the call waits, so the commit
\* is written into the state together with the outcome, at the return.
BeginCommitAndPush ==
    /\ ~Waiting /\ ~Answered
    /\ KbDir \in gitDirs /\ ~repo.detached /\ repo.origin
    /\ ~NothingToCommit(KbDir, fs)
    /\ repo.commits < MaxCommits
    /\ last' = [op |-> "commit_and_push", phase |-> "waiting"]
    /\ UNCHANGED <<fs, dirs, link, gitDirs, repo, notes, fts, nextId>>

\* the remote answers (or the connection fails) and the subprocess ends
RemoteResponds(answer) ==
    /\ Waiting
    /\ \/ last.op = "pull" /\ answer \in PullAnswers
       \/ last.op = "commit_and_push" /\ answer \in SyncOutcomes
    /\ last' = [op |-> last.op, phase |-> "answered", answer |-> answer]
    /\ UNCHANGED <<fs, dirs, link, gitDirs, repo, notes, fts, nextId>>

\* the call returns its (success, message) once its subprocess has ended
ReturnFromSync ==
    /\ Answered
    /\ LET g == IF last.op = "pull" THEN GitPullOn(last.answer)
                ELSE [ok    |-> GitSyncAfterCommit(KbDir, fs, last.answer).ok,
                      msg   |-> GitSyncAfterCommit(KbDir, fs, last.answer).msg,
                      repo  |-> GitSyncAfterCommit(KbDir, fs, last.answer).repo,
                      files |-> fs]
       IN  /\ g.repo.commits <= MaxCommits
           /\ repo' = g.repo
           /\ fs' = g.files
           /\ last' = [op |-> last.op, phase |-> "returned", ok |-> g.ok, msg |-> g.msg]
    /\ UNCHANGED <<dirs, link, gitDirs, notes, fts, nextId>>

\* the walk of update_note / append_to_note upward from note_path.parent
\* for a directory holding .git; <<>> when none is found
FindGitRoot(path) ==
    LET found == {a \in Ancestors(path) : Resolve(a) \in gitDirs}
    IN  IF found = {} THEN <<>>
        ELSE CHOOSE a \in found : \A b \in found : Len(b) <= Len(a)

\* ------------------------------------------------------------------------
\* Directory Reconciler (database.py: index_directory)
\* ------------------------------------------------------------------------

\* Step 4: the orphaned entries leave both tables
RECURSIVE PurgeOrphans(_, _)
PurgeOrphans(st, orphans) ==
    IF orphans = {} THEN st
    ELSE LET f == CHOOSE x \in orphans : TRUE
         IN  PurgeOrphans(StoreAfterDelete(st, f), orphans \ {f})

\* a loop that skips the files the store already holds a record for
RECURSIVE IndexAllNewOnly(_, _, _)
IndexAllNewOnly(files, st, order) ==
    IF order = <<>> THEN st
    ELSE LET f == Head(order)
             known == \E n \in st.notes : n.filepath = f
         IN  IndexAllNewOnly(files,
                             IF Readable(files[f]) /\ ~known
                             THEN StoreAfterUpsert(st, IndexFile(f, files[f])) ELSE st,
                             Tail(order))

\* a loop that ends at the first file that cannot be indexed
RECURSIVE IndexAllUntilFailure(_, _, _)
IndexAllUntilFailure(files, st, order) ==
    IF order = <<>> THEN st
    ELSE LET f == Head(order)
         IN  IF Readable(files[f])
             THEN IndexAllUntilFailure(files, StoreAfterUpsert(st, IndexFile(f, files[f])),
                                       Tail(order))
             ELSE st

\* Step 5: the loop over filesystem_files; a file that cannot be indexed
\* is skipped
RECURSIVE IndexAll(_, _, _)
IndexAll(files, st, order) ==
    IF order = <<>> THEN st
    ELSE LET f == Head(order)
         IN  IndexAll(files,
                      IF Readable(files[f]) THEN StoreAfterUpsert(st, IndexFile(f, files[f]))
                      ELSE st,
                      Tail(order))

\* index_directory(KbDir, db): the store, the directories and the returned
\* (indexed_count, removed_count)
IndexDirectory(ds, files, order) ==
    IF KbDir \notin ds
    THEN [store |-> Store, dirs |-> ds \cup {KbDir}, indexed |-> 0, removed |-> 0]
    ELSE LET orphans == {n.filepath : n \in notes} \ RGlobMdIn(files)
         IN  [store   |-> IndexAll(files, PurgeOrphans(Store, orphans), order),
              dirs    |-> ds,
              indexed |-> Cardinality({f \in RGlobMdIn(files) : Readable(files[f])}),
              removed |-> Cardinality(orphans)]

\* a reconciliation that scans the files as they were before the pull
FilesBeforePull(before, after) == before

\* the files index_directory scans: it is called when
\* git_pull_from_remote has returned, so it sees what the pull left
FilesForPass(before, after) == after

\* the annotation of the reindex response: the pulled commits, nothing for
\* an up-to-date repository, a warning for a pull that failed
PullStatus(pull) ==
    IF ~pull.ok THEN "warning"
    ELSE IF pull.msg = "Pulled 1 commit(s)" THEN "inbox"
    ELSE "none"

\* the pull and the reconciliation pass that reindex_kb and the start of
\* the server share: index_directory runs on what the pull left, whatever
\* the pull returned; `ds` are the directories when the pull is called
PullThenReconcile(op, ds, pull) ==
    LET files == FilesForPass(fs, pull.files)
    IN  \E order \in Orders(RGlobMdIn(files)) :
            LET pass == IndexDirectory(ds, files, order)
            IN  /\ pass.store.nextId <= MaxId + 1
                /\ pull.repo.commits <= MaxCommits
                /\ SetStore(pass.store)
                /\ dirs' = pass.dirs
                /\ last' = [op |-> op, hadRoot |-> KbDir \in ds,
                            indexed |-> pass.indexed, removed |-> pass.removed,
                            failed |-> {f \in RGlobMdIn(files) : ~Readable(files[f])},
                            git |-> pull.msg, glyph |-> PullStatus(pull)]
                /\ repo' = pull.repo
                /\ fs' = pull.files
                /\ UNCHANGED <<link, gitDirs>>

\* reindex_kb: pull, then the reconciliation pass
ReindexKb ==
    \E pull \in GitPullFromRemote : PullThenReconcile("reindex", dirs, pull)

\* the start of the server: KB_DIR is made if it is missing (a directory
\* just made is no repository), then the pull, then the reconciliation pass
Startup ==
    \E pull \in IF KbDir \in dirs THEN GitPullFromRemote
                ELSE {[ok |-> FALSE, msg |-> "Not a git repository", repo |-> repo,
                       files |-> fs]} :
        PullThenReconcile("startup", dirs \cup {KbDir}, pull)

\* ------------------------------------------------------------------------
\* Tools (tools.py: create_note, update_note, append_to_note)
\* ------------------------------------------------------------------------

\* how the write of the file ends: written whole, open() raises, or
\* f.write() raises after open(p, 'w') has created or truncated the file
WriteOutcomes == {"ok", "open_fails", "write_fails"}

\* the security check of create_note_file:
\* str(filepath_resolved).startswith(str(kb_dir_resolved))
InsideKb(filepath) == StartsWith(Resolve(filepath), Resolve(KbDir))

\* what a tool call returned: the head of its text and the sync annotation
\* (glyph "package": synced, "warning": not synced, "none": no annotation),
\* with the step at which the call raised ("read", "write", "index" or
\* "none") and how its commit-and-push ended ("ok", "failed", "skipped"
\* when no repository was found, "none" when it was never reached)
Returned(call, path, text, raised, sync, git, glyph) ==
    last' = [op |-> call.op, arg |-> call.arg, content |-> call.content,
             path |-> path, text |-> text, raised |-> raised, sync |-> sync,
             git |-> git, glyph |-> glyph]

\* an annotation that shows every sync as done
SyncStatusAlwaysSynced(g) == "package"

\* the sync annotation of the response: package for success, warning else
SyncStatus(g) == IF g.ok THEN "package" ELSE "warning"

\* an except clause that answers with the success text all the same
IndexErrorTextAsSuccess(okText, errText) == okText

\* the text a tool returns when index_file or upsert_note_to_db raised
IndexErrorText(okText, errText) == errText

\* the try block shared by the three tools once the file is written:
\* index_file, upsert_note_to_db, then the commit-and-push and the success
\* text; an exception becomes the text of the except clause
IndexAndSync(call, filepath, gitDir, okText, errText) ==
    \/ /\ Returned(call, filepath, IndexErrorText(okText, errText), "index", "none", "none", "none")
       /\ UNCHANGED <<notes, fts, nextId, repo>>
    \/ /\ nextId <= MaxId
       /\ SetStore(StoreAfterUpsert(Store, IndexFile(filepath, fs'[Resolve(filepath)])))
       /\ IF gitDir = <<>>
          THEN /\ Returned(call, filepath, okText, "none", "skipped", "Not a git repository", "warning")
               /\ UNCHANGED repo
          ELSE \E g \in GitCommitAndPush(gitDir, fs') :
                   /\ repo' = g.repo
                   /\ Returned(call, filepath, okText, "none", IF g.ok THEN "ok" ELSE "failed",
                               g.msg, SyncStatus(g))

\* the file after open(p, 'w') and f.write(content) ended as `wr`
FileAfterWrite(f, p, content, wr) ==
    IF wr = "open_fails" THEN f
    ELSE IF wr = "write_fails" THEN WriteFile(f, p, <<>>)
    ELSE WriteFile(f, p, content)

\* create_note(title, content, tags)
CreateNote(title, content, tags) ==
    LET parts    == SanitizedParts(title)
        filepath == TargetPath(KbDir, parts)
        target   == Resolve(filepath)
        call     == [op |-> "create", arg |-> title, content |-> content]
    IN  /\ UNCHANGED <<link, gitDirs>>
        /\ IF \E i \in 1..Len(parts) : PartRejected(parts[i])
           THEN /\ Returned(call, <<>>, "Error: Invalid path component in title",
                            "none", "none", "none", "none")
                /\ UNCHANGED <<fs, dirs, notes, fts, nextId, repo>>
           ELSE IF ~InsideKb(filepath)
           THEN /\ Returned(call, <<>>,
                            "Error: Invalid path: attempt to write outside knowledge base directory",
                            "none", "none", "none", "none")
                /\ UNCHANGED <<fs, dirs, notes, fts, nextId, repo>>
           ELSE IF Exists(filepath)
           THEN /\ Returned(call, filepath, "Error: Note already exists. Use update_note to modify it.",
                            "none", "none", "none", "none")
                /\ UNCHANGED <<fs, dirs, notes, fts, nextId, repo>>
           ELSE /\ dirs' = dirs \cup Ancestors(target)
                /\ \E wr \in WriteOutcomes :
                       /\ fs' = FileAfterWrite(fs, target, CreateContent(title, content, tags), wr)
                       /\ IF wr = "ok"
                          THEN IndexAndSync(call, filepath, KbDir,
                                            "Successfully created note", "Error indexing new note")
                          ELSE /\ Returned(call, filepath, "Error: Error creating file",
                                           "write", "none", "none", "none")
                               /\ UNCHANGED <<notes, fts, nextId, repo>>

\* update_note_file / append_to_note_file followed by the tool's try block;
\* newContent is the text the file is rewritten with
RewriteNote(call, filepath, newContent, errWrite, okText, errText) ==
    /\ UNCHANGED <<dirs, link, gitDirs>>
    /\ IF ~Exists(filepath)
       THEN /\ Returned(call, filepath, "Error: Note not found", "none", "none", "none", "none")
            /\ UNCHANGED <<fs, notes, fts, nextId, repo>>
       ELSE IF ~IsFile(filepath) \/ ~Readable(FileAt(filepath))
       THEN /\ Returned(call, filepath, errWrite, "read", "none", "none", "none")
            /\ UNCHANGED <<fs, notes, fts, nextId, repo>>
       ELSE /\ \E wr \in WriteOutcomes :
                   /\ fs' = FileAfterWrite(fs, Resolve(filepath), newContent, wr)
                   /\ IF wr = "ok"
                      THEN IndexAndSync(call, filepath, FindGitRoot(filepath), okText, errText)
                      ELSE /\ Returned(call, filepath, errWrite, "write", "none", "none", "none")
                           /\ UNCHANGED <<notes, fts, nextId, repo>>

\* the text read from a note before it is rewritten; nothing when the read
\* fails
ReadNote(filepath) ==
    IF IsFile(filepath) /\ Readable(FileAt(filepath)) THEN FileAt(filepath) ELSE <<>>

\* update_note(filepath, content)
UpdateNote(filepath, content) ==
    RewriteNote([op |-> "update", arg |-> filepath, content |-> content],
                filepath, UpdateContent(ReadNote(filepath), content),
                "Error: Error updating note",
                "Successfully updated note", "Error re-indexing updated note")

\* append_to_note(filepath, content)
AppendToNote(filepath, content) ==
    /\ Len(AppendContent(ReadNote(filepath), content)) <= MaxFileLen
    /\ RewriteNote([op |-> "append", arg |-> filepath, content |-> content],
                   filepath, AppendContent(ReadNote(filepath), content),
                   "Error: Error appending to note",
                   "Successfully appended to note", "Error re-indexing appended note")

\* ------------------------------------------------------------------------
\* Directories (database.py: create_directory; tools.py: create_kb_directory)
\* ------------------------------------------------------------------------

\* the components of a path with '.', empty components and 'x/..' removed
RECURSIVE CollapseDots(_, _)
CollapseDots(parts, acc) ==
    IF parts = <<>> THEN acc
    ELSE IF Head(parts) = <<".", ".">>
    THEN CollapseDots(Tail(parts), IF acc = <<>> THEN acc ELSE SubSeq(acc, 1, Len(acc) - 1))
    ELSE IF Head(parts) \in {<<>>, <<".">>}
    THEN CollapseDots(Tail(parts), acc)
    ELSE CollapseDots(Tail(parts), Append(acc, Head(parts)))

\* the absolute path made of the components
RECURSIVE AbsPath(_)
AbsPath(parts) ==
    IF parts = <<>> THEN <<>> ELSE <<"/">> \o Head(parts) \o AbsPath(Tail(parts))

\* (kb_path / directory_path).resolve(): an absolute directory_path
\* replaces kb_path, the link is followed and '..' is applied
DirTarget(directoryPath) ==
    LET joined == IF directoryPath # <<>> /\ Head(directoryPath) = "/"
                  THEN directoryPath
                  ELSE KbDir \o <<"/">> \o directoryPath
    IN  AbsPath(CollapseDots(SplitCh(Resolve(joined), "/"), <<>>))

\* a containment test on the strings of the two paths
InsideRootByPrefix(target) == StartsWith(target, Resolve(KbDir))

\* target_path.resolve().relative_to(kb_path.resolve()) does not raise
InsideRoot(target) == target = Resolve(KbDir) \/ Below(target, Resolve(KbDir))

\* what create_directory returned
ReturnedDir(directoryPath, ok, text) ==
    last' = [op |-> "create_directory", arg |-> directoryPath, ok |-> ok, text |-> text]

\* create_kb_directory(directory_path)
CreateDirectory(directoryPath) ==
    LET target == DirTarget(directoryPath)
    IN  /\ UNCHANGED <<fs, link, gitDirs, repo, notes, fts, nextId>>
        /\ IF ~InsideRoot(target)
           THEN /\ ReturnedDir(directoryPath, FALSE,
                               "Error: Directory path must be within the knowledge base directory")
                /\ UNCHANGED dirs
           ELSE IF target \in dirs
           THEN /\ ReturnedDir(directoryPath, FALSE, "Directory already exists")
                /\ UNCHANGED dirs
           ELSE IF target \in DOMAIN fs
           THEN /\ ReturnedDir(directoryPath, FALSE, "A file already exists at")
                /\ UNCHANGED dirs
           ELSE IF Ancestors(target) \cap DOMAIN fs # {}
           THEN /\ ReturnedDir(directoryPath, FALSE, "Error creating directory")
                /\ UNCHANGED dirs
           ELSE /\ ReturnedDir(directoryPath, TRUE, "Successfully created directory")
                /\ dirs' = dirs \cup {target} \cup Ancestors(target)

\* ------------------------------------------------------------------------
\* The file tree is edited from outside the server as well
\* ------------------------------------------------------------------------

\* an editor, a checkout or another program writes a file
ExternalWrite(p, c) ==
    /\ p \notin dirs
    /\ fs' = WriteFile(fs, p, c)
    /\ dirs' = dirs \cup Ancestors(p)
    /\ last' = [op |-> "external"]
    /\ UNCHANGED <<link, gitDirs, repo, notes, fts, nextId>>

\* a file is deleted
ExternalDelete(p) ==
    /\ p \in DOMAIN fs
    /\ fs' = RemoveFiles(fs, {p})
    /\ last' = [op |-> "external"]
    /\ UNCHANGED <<dirs, link, gitDirs, repo, notes, fts, nextId>>

\* the note directory is removed with everything in it
ExternalRemoveRoot ==
    /\ KbDir \in dirs
    /\ fs' = RemoveFiles(fs, {p \in DOMAIN fs : Below(p, KbDir)})
    /\ dirs' = {d \in dirs : d # KbDir /\ ~Below(d, KbDir)}
    /\ link' = NoLink
    /\ gitDirs' = {d \in gitDirs : d # KbDir /\ ~Below(d, KbDir)}
    /\ last' = [op |-> "external"]
    /\ UNCHANGED <<repo, notes, fts, nextId>>

\* a note written from outside while no call is under way
EditWhileIdle(p, c) ==
    /\ ~Waiting /\ ~Answered
    /\ ExternalWrite(p, c)

\* ------------------------------------------------------------------------
\* Tool calls as coroutines of one event loop (tools.py): a call runs from
\* one await to the next without another call running in between
\* ------------------------------------------------------------------------

\* a call moves on: its position, the record it holds for a later upsert,
\* the text it returns and the step at which it raised
TaskMoves(c, pos, heldRecs, text, raised) ==
    last' = [last EXCEPT !.pc[c] = pos, !.held[c] = heldRecs,
                         !.out[c] = [text |-> text, raised |-> raised]]

\* an order of statements in which the tool awaits between index_file and
\* upsert_note_to_db
UpsertAfterAwaitMoved == TRUE

\* upsert_note_to_db comes after the first await of the tool: it does not,
\* `await ctx.info(...)` follows the upsert
UpsertAfterAwait == FALSE

\* create_note, update_note, append_to_note from the call to the first
\* await: the checks, the write of the file, index_file and
\* upsert_note_to_db
MutationBegins(c, call) ==
    LET filepath == IF call.op = "create" THEN TargetPath(KbDir, SanitizedParts(call.arg))
                    ELSE call.arg
        target   == Resolve(filepath)
        content  == CASE call.op = "create" -> CreateContent(call.arg, call.content, <<>>)
                      [] call.op = "update" -> UpdateContent(ReadNote(filepath), call.content)
                      [] call.op = "append" -> AppendContent(ReadNote(filepath), call.content)
        refusal  == IF call.op = "create"
                    THEN IF \E i \in 1..Len(SanitizedParts(call.arg)) :
                                PartRejected(SanitizedParts(call.arg)[i])
                         THEN "Error: Invalid path component in title"
                         ELSE IF ~InsideKb(filepath)
                         THEN "Error: Invalid path: attempt to write outside knowledge base directory"
                         ELSE IF Exists(filepath)
                         THEN "Error: Note already exists. Use update_note to modify it."
                         ELSE ""
                    ELSE IF ~Exists(filepath) THEN "Error: Note not found"
                    ELSE IF ~IsFile(filepath) \/ ~Readable(FileAt(filepath))
                    THEN "Error: Error reading note"
                    ELSE ""
    IN  /\ last.op = "tasks"
        /\ last.pc[c] = "idle"
        /\ UNCHANGED <<link, gitDirs, repo>>
        /\ IF refusal # ""
           THEN /\ TaskMoves(c, "returned", {}, refusal,
                             IF refusal = "Error: Error reading note" THEN "read" ELSE "none")
                /\ UNCHANGED <<fs, dirs, notes, fts, nextId>>
           ELSE /\ dirs' = dirs \cup Ancestors(target)
                /\ \E wr \in WriteOutcomes :
                       /\ fs' = FileAfterWrite(fs, target, content, wr)
                       /\ IF wr # "ok"
                          THEN /\ TaskMoves(c, "returned", {}, "Error: Error writing note", "write")
                               /\ UNCHANGED <<notes, fts, nextId>>
                          ELSE \/ /\ TaskMoves(c, "returned", {}, "Error indexing note", "index")
                                  /\ UNCHANGED <<notes, fts, nextId>>
                               \/ LET rec == IndexFile(filepath, fs'[target])
                                  IN  IF UpsertAfterAwait
                                      THEN /\ TaskMoves(c, "awaiting", {rec}, "", "none")
                                           /\ UNCHANGED <<notes, fts, nextId>>
                                      ELSE /\ TaskMoves(c, "awaiting", {}, "", "none")
                                           /\ SetStore(StoreAfterUpsert(Store, rec))

\* the same tools from their first await to the return: the commit and
\* push of the repository found, and the success text
MutationSyncs(c, call) ==
    LET filepath == IF call.op = "create" THEN TargetPath(KbDir, SanitizedParts(call.arg))
                    ELSE call.arg
        gitDir   == IF call.op = "create" THEN KbDir ELSE FindGitRoot(filepath)
        st       == IF last.held[c] = {} THEN Store
                    ELSE StoreAfterUpsert(Store, CHOOSE r \in last.held[c] : TRUE)
    IN  /\ last.op = "tasks"
        /\ last.pc[c] = "awaiting"
        /\ SetStore(st)
        /\ TaskMoves(c, "returned", {}, "Successfully", "none")
        /\ IF gitDir = <<>>
           THEN UNCHANGED repo
           ELSE \E g \in GitCommitAndPush(gitDir, fs) : repo' = g.repo
        /\ UNCHANGED <<fs, dirs, link, gitDirs>>

\* reindex_kb from its first await to its second: git_pull_from_remote
ReindexPulls(c) ==
    /\ last.op = "tasks"
    /\ last.pc[c] = "idle"
    /\ \E pull \in GitPullFromRemote :
           /\ fs' = pull.files
           /\ repo' = pull.repo
           /\ TaskMoves(c, "awaiting", {}, pull.msg, "none")
    /\ UNCHANGED <<dirs, link, gitDirs, notes, fts, nextId>>

\* reindex_kb from its second await to the return: index_directory on the
\* files as they are by then
ReindexScans(c) ==
    /\ last.op = "tasks"
    /\ last.pc[c] = "awaiting"
    /\ \E order \in Orders(RGlobMdIn(fs)) :
           LET pass == IndexDirectory(dirs, fs, order)
           IN  /\ SetStore(pass.store)
               /\ dirs' = pass.dirs
    /\ TaskMoves(c, "returned", {}, "Successfully indexed", "none")
    /\ UNCHANGED <<fs, link, gitDirs, repo>>

\* ------------------------------------------------------------------------
\* Inputs
\* ------------------------------------------------------------------------

PathA == KbDir \o <<"/", "a", ".", "m", "d">>

PathB == SubDir \o <<"/", "b", ".", "m", "d">>

PathViaLink == LinkPath \o <<"/", "b", ".", "m", "d">>

TitleA == <<"a">>

TitleA2 == <<"A", "!">>

TitleSub == <<"d", "/", "b">>

TitleLink == <<"l", "/", "b">>

TitleTraversal == <<".", ".", "/", ".", ".", "/", "e", "v", "i", "l">>

TitleEmptySegment == <<"a", "/">>

Titles == {TitleA, TitleA2, TitleSub, TitleLink, TitleTraversal, TitleEmptySegment}

Contents == {<<"x">>, <<"y">>}

TagInputs == {<<>>, <<"t">>}

FilePaths == {PathA, PathB, PathViaLink}

\* a note with a frontmatter block, and a file that is not valid UTF-8
FrontmatterNote ==
    Dashes \o <<NL>> \o KeyTitle \o <<":", " ", "T", NL>> \o Dashes \o <<NL, "y">>

ExternalContents == {FrontmatterNote, <<BadByte>>}

\* a note whose frontmatter value is quoted, and a note that ends in
\* whitespace
QuotedNote ==
    Dashes \o <<NL>> \o KeyTitle \o <<":", " ", "\"", "T", "\"", NL>> \o Dashes \o <<NL, "y">>

TrailingNote == <<"o", " ", NL>>

RewriteContents == {FrontmatterNote, QuotedNote, TrailingNote}

ExternalPaths == {PathA, PathB}

\* directory_path arguments: a new directory, one below a directory yet to
\* be made, one through the link, an absolute one, one that climbs out of
\* the note directory, the path of a note, and one below a note
DirNew == <<"n">>

DirNested == <<"d", "/", "n">>

DirViaLink == <<"l", "/", "n">>

DirAbsolute == OutsideDir \o <<"/", "n">>

DirUp == <<".", ".", "/", "o">>

DirOnNote == <<"a", ".", "m", "d">>

DirBelowNote == <<"a", ".", "m", "d", "/", "n">>

DirInputs == {DirNew, DirNested, DirViaLink, DirAbsolute, DirUp, DirOnNote, DirBelowNote}

\* ------------------------------------------------------------------------
\* Specifications
\*
\* The server starts on an existing, empty note directory with an empty
\* store (server.py: init_db, mkdir of KB_DIR, then the first pass).  Each
\* specification runs a group of operations against that start.
\* ------------------------------------------------------------------------

\* a repository on its branch with an empty tree and nothing to push;
\* `token`: a push credential is configured
NewRepo(token) ==
    [detached |-> FALSE, unpushed |-> FALSE, head |-> EmptyTree, commits |-> 0,
     origin |-> TRUE, token |-> token, askpass |-> FALSE]

StartedOn(links, repos) ==
    /\ fs = EmptyTree
    /\ link \in links
    /\ dirs = {KbDir} \cup (IF link = NoLink THEN {} ELSE {link})
    /\ gitDirs \in repos
    /\ repo = NewRepo(FALSE)
    /\ notes = {}
    /\ fts = {}
    /\ nextId = 1
    /\ summaries = {}
    /\ last = [op |-> "start"]

\* the reconciler, one tool upsert and the file tree edited from outside
InitStore == StartedOn({NoLink}, {{}})

NextStore ==
    \/ ReindexKb
    \/ \E p \in ExternalPaths : UpdateNote(p, <<"x">>)
    \/ \E p \in ExternalPaths, c \in ExternalContents : ExternalWrite(p, c)
    \/ \E p \in ExternalPaths : ExternalDelete(p)
    \/ ExternalRemoveRoot

SpecStore == InitStore /\ [][NextStore /\ UNCHANGED summaries]_vars

\* the three mutating tools on one note, no repository around it
InitTools == StartedOn({NoLink}, {{}})

NextTools ==
    \/ \E g \in TagInputs : CreateNote(TitleA, <<"x">>, g)
    \/ UpdateNote(PathA, <<"y">>)
    \/ AppendToNote(PathA, <<"y">>)
    \/ \E c \in ExternalContents : ExternalWrite(PathA, c)
    \/ ExternalDelete(PathA)

SpecTools == InitTools /\ [][NextTools /\ UNCHANGED summaries]_vars

\* the three mutating tools on one note inside a git repository
InitSync == StartedOn({NoLink}, {{KbDir}})

NextSync ==
    \/ CreateNote(TitleA, <<"x">>, <<>>)
    \/ UpdateNote(PathA, <<"y">>)
    \/ AppendToNote(PathA, <<"y">>)

SpecSync == InitSync /\ [][NextSync /\ UNCHANGED summaries]_vars

\* update_note and append_to_note on notes written by hand
InitRewrite == StartedOn({NoLink}, {{}})

NextRewrite ==
    \/ \E c \in RewriteContents : ExternalWrite(PathA, c)
    \/ UpdateNote(PathA, <<"x">>)
    \/ AppendToNote(PathA, <<"y">>)

SpecRewrite == InitRewrite /\ [][NextRewrite /\ UNCHANGED summaries]_vars

\* create_directory over every path, with and without a linked directory
InitDirs == StartedOn(LinkTargets, {{}})

NextDirs ==
    \/ \E d \in DirInputs : CreateDirectory(d)
    \/ ExternalWrite(PathA, <<"x">>)
    \/ ExternalDelete(PathA)

SpecDirs == InitDirs /\ [][NextDirs /\ UNCHANGED summaries]_vars

\* the three mutating tools on a note in a subdirectory, with the .git
\* marker in the subdirectory or nowhere
InitScope == StartedOn({NoLink}, {{SubDir}, {}})

NextScope ==
    \/ CreateNote(TitleSub, <<"x">>, <<>>)
    \/ UpdateNote(PathB, <<"y">>)
    \/ AppendToNote(PathB, <<"y", "y", "y">>)

SpecScope == InitScope /\ [][NextScope /\ UNCHANGED summaries]_vars

\* the words searched for
Queries == {<<"x">>, <<"y">>, <<"a">>, <<"b">>, <<"T">>, <<"m", "d">>}

\* the limits asked for: negative, zero, within and beyond the table
Limits == {-1, 0, 1, 2, 5}

\* the values of modified_at
Stamps == {1, 2}

PathC == KbDir \o <<"/", "c", ".", "m", "d">>

\* a row of notes with its modified_at column, which the specifications
\* of the mutations leave out
StampedRow(id, filepath, content, stamp) ==
    LET rec == IndexFile(filepath, content)
    IN  [id |-> id, filepath |-> rec.filepath, filename |-> rec.filename,
         title |-> rec.title, content |-> rec.content, tags |-> rec.tags,
         modified_at |-> stamp]

\* the tables of up to three indexed notes
StampedTables ==
    {{StampedRow(1, PathA, <<"x">>, sa)} \cup rb \cup rc :
         sa \in Stamps,
         rb \in {{}} \cup {{StampedRow(2, PathB, <<"x", " ", "y">>, sb)} : sb \in Stamps},
         rc \in {{}} \cup {{StampedRow(3, PathC, <<"y">>, sc)} : sc \in Stamps}}

\* search and recent over an indexed table
InitQuery ==
    /\ notes \in StampedTables
    /\ fts = {FtsRow(n) : n \in notes}
    /\ fs = EmptyTree
    /\ link = NoLink
    /\ dirs = {KbDir}
    /\ gitDirs = {}
    /\ repo = NewRepo(FALSE)
    /\ nextId = 4
    /\ summaries = {}
    /\ last = [op |-> "start"]

NextQuery ==
    \/ \E q \in Queries, l \in Limits : SearchNotes(q, l)
    \/ \E l \in Limits : ListRecentNotes(l)

SpecQuery == InitQuery /\ [][NextQuery /\ UNCHANGED summaries]_vars

\* every text of heading marks, blanks, line ends and a letter
PlainTexts == UNION {[1..n -> {"#", " ", NL, "x"}] : n \in 0..MaxPlainLen}

\* the values written after "title:" and the texts that follow the block
TitleValues == {<<"T">>, <<"T", " ">>, <<"\"", "T", "\"">>, <<>>}

Bodies == {<<"y">>, <<"y", NL>>, <<" ", "y">>, <<"#", " ", "H">>, <<>>}

\* a file made of a frontmatter block holding "title: " x, followed by b
FmNote(x, b) ==
    Dashes \o <<NL>> \o KeyTitle \o <<":", " ">> \o x \o <<NL>> \o Dashes \o <<NL>> \o b

\* texts that open with dashes but hold no delimited block, or hold the
\* delimiters without lines of their own
DashTexts ==
    {Dashes \o <<NL>> \o KeyTitle \o <<":", " ", "T">>,
     Dashes \o <<"-">>,
     Dashes \o Dashes \o <<NL, "x">>,
     <<" ">> \o FmNote(<<"T">>, <<"y">>)}

IndexTexts == PlainTexts \cup {FmNote(x, b) : x \in TitleValues, b \in Bodies} \cup DashTexts

\* the indexer applied to one note of every text
InitIndex ==
    /\ \E c \in IndexTexts : fs = [p \in {PathA} |-> c]
    /\ link = NoLink
    /\ dirs = {KbDir}
    /\ gitDirs = {}
    /\ repo = NewRepo(FALSE)
    /\ notes = {}
    /\ fts = {}
    /\ nextId = 1
    /\ summaries = {}
    /\ last = [op |-> "start"]

NextIndex == IndexNote(PathA)

SpecIndex == InitIndex /\ [][NextIndex /\ UNCHANGED summaries]_vars

\* reindex_kb and the start of the server on a repository whose files and
\* remote change, and on a directory that is no repository
InitReindex == StartedOn({NoLink}, {{KbDir}, {}})

NextReindex ==
    \/ ReindexKb
    \/ Startup
    \/ \E sync \in SyncOutcomes : CommitAndPush(sync)
    \/ \E c \in {<<"x">>, <<BadByte>>} : ExternalWrite(PathA, c)
    \/ ExternalDelete(PathA)
    \/ ExternalRemoveRoot

SpecReindex == InitReindex /\ [][NextReindex /\ UNCHANGED summaries]_vars

\* the sync adapter called on a repository whose files change, with and
\* without a push credential
InitGit ==
    /\ fs = EmptyTree
    /\ link = NoLink
    /\ dirs = {KbDir}
    /\ gitDirs = {KbDir}
    /\ repo \in {NewRepo(token) : token \in BOOLEAN}
    /\ notes = {}
    /\ fts = {}
    /\ nextId = 1
    /\ summaries = {}
    /\ last = [op |-> "start"]

NextGit ==
    \/ \E sync \in SyncOutcomes : CommitAndPush(sync)
    \/ \E answer \in PullAnswers : Pull(answer)
    \/ \E c \in Contents : ExternalWrite(PathA, c)
    \/ ExternalDelete(PathA)

SpecGit == InitGit /\ [][NextGit /\ UNCHANGED summaries]_vars

\* the sync adapter on a directory that is or is not a repository, with
\* and without the remote named origin
InitRemote ==
    /\ fs = EmptyTree
    /\ link = NoLink
    /\ dirs = {KbDir}
    /\ gitDirs \in {{KbDir}, {}}
    /\ repo \in {[NewRepo(FALSE) EXCEPT !.origin = o] : o \in BOOLEAN}
    /\ notes = {}
    /\ fts = {}
    /\ nextId = 1
    /\ summaries = {}
    /\ last = [op |-> "start"]

NextRemote ==
    \/ \E sync \in SyncOutcomes : CommitAndPush(sync)
    \/ \E answer \in PullAnswers : Pull(answer)
    \/ \E c \in Contents : ExternalWrite(PathA, c)
    \/ ExternalDelete(PathA)

SpecRemote == InitRemote /\ [][NextRemote /\ UNCHANGED summaries]_vars

\* the calls of the adapter taken apart at their network step; the process
\* returns from a call whose subprocess has ended, and nothing makes the
\* remote answer
InitWait ==
    /\ fs = EmptyTree
    /\ link = NoLink
    /\ dirs = {KbDir}
    /\ gitDirs = {KbDir}
    /\ repo \in {NewRepo(token) : token \in BOOLEAN}
    /\ notes = {}
    /\ fts = {}
    /\ nextId = 1
    /\ summaries = {}
    /\ last = [op |-> "start"]

NextWait ==
    \/ BeginPull
    \/ BeginCommitAndPush
    \/ \E answer \in PullAnswers \cup SyncOutcomes : RemoteResponds(answer)
    \/ ReturnFromSync
    \/ \E c \in Contents : EditWhileIdle(PathA, c)

SpecWait == InitWait /\ [][NextWait /\ UNCHANGED summaries]_vars /\ WF_vars(ReturnFromSync /\ UNCHANGED summaries)

\* every network step failing for every cause, on each branch
InitClassify ==
    /\ fs = EmptyTree
    /\ link = NoLink
    /\ dirs = {KbDir}
    /\ gitDirs = {KbDir}
    /\ repo = NewRepo(FALSE)
    /\ notes = {}
    /\ fts = {}
    /\ nextId = 1
    /\ summaries = {}
    /\ last = [op |-> "start"]

NextClassify ==
    \E fnStep \in NetworkSteps, branch \in Branches,
       cause \in NetworkCauses \cup OtherCauses, subject \in Subjects :
        SyncStepFails(fnStep[1], fnStep[2], branch, cause, subject)

SpecClassify == InitClassify /\ [][NextClassify /\ UNCHANGED summaries]_vars

\* every line of a key letter, colons, quote characters and blanks
BlockLines == UNION {[1..n -> {"t", ":", "\"", "'", " "}] : n \in 0..MaxLineLen}

\* the parser applied to each line
InitParse ==
    /\ fs = EmptyTree
    /\ link = NoLink
    /\ dirs = {KbDir}
    /\ gitDirs = {}
    /\ repo = NewRepo(FALSE)
    /\ notes = {}
    /\ fts = {}
    /\ nextId = 1
    /\ summaries = {}
    /\ last = [op |-> "start"]

NextParse == \E line \in BlockLines : ParseBlockLine(line)

SpecParse == InitParse /\ [][NextParse /\ UNCHANGED summaries]_vars

\* the ways a frontmatter block can carry tags: no tags line, a scalar, a
\* YAML flow sequence, a YAML block sequence; `elems` are the tags meant
TagForms ==
    {[kind |-> "missing", elems |-> <<>>, lines |-> <<>>],
     [kind |-> "scalar", elems |-> <<<<"a">>>>,
      lines |-> KeyTags \o <<":", " ", "a", NL>>],
     [kind |-> "scalar", elems |-> <<<<"a", ",", "b">>>>,
      lines |-> KeyTags \o <<":", " ", "a", ",", "b", NL>>],
     [kind |-> "scalar", elems |-> <<<<"a">>>>,
      lines |-> KeyTags \o <<":", " ", "\"", "a", "\"", NL>>],
     [kind |-> "sequence", elems |-> <<<<"a">>>>,
      lines |-> KeyTags \o <<":", " ", "[", "a", "]", NL>>],
     [kind |-> "sequence", elems |-> <<<<"a">>, <<"b">>>>,
      lines |-> KeyTags \o <<":", " ", "[", "a", ",", " ", "b", "]", NL>>],
     [kind |-> "sequence", elems |-> <<<<"a">>, <<"b">>>>,
      lines |-> KeyTags \o <<":", NL, " ", "-", " ", "a", NL, " ", "-", " ", "b", NL>>]}

\* a file whose block holds the title line `t` and the tags of form `g`,
\* followed by b
TaggedNote(t, g, b) == Dashes \o <<NL>> \o t \o g.lines \o Dashes \o <<NL>> \o b

TitleLines == {<<>>, KeyTitle \o <<":", " ", "T", NL>>}

\* the indexer applied to one note of every form of tags
InitTags ==
    /\ \E t \in TitleLines, g \in TagForms, b \in Bodies, p \in {PathA, PathB} :
           fs = [q \in {p} |-> TaggedNote(t, g, b)]
    /\ link = NoLink
    /\ dirs = {KbDir}
    /\ gitDirs = {}
    /\ repo = NewRepo(FALSE)
    /\ notes = {}
    /\ fts = {}
    /\ nextId = 1
    /\ summaries = {}
    /\ last = [op |-> "start"]

NextTags == \E p \in {PathA, PathB} : IndexNote(p)

SpecTags == InitTags /\ [][NextTags /\ UNCHANGED summaries]_vars

\* a file that lies outside the note directory
PathOutside == OutsideDir \o <<"/", "x", ".", "m", "d">>

\* the three mutating tools called with the path of a note and with the
\* path of a file outside the note directory
InitContain == StartedOn({NoLink}, {{}})

NextContain ==
    \/ CreateNote(TitleA, <<"x">>, <<>>)
    \/ \E p \in {PathA, PathOutside} : UpdateNote(p, <<"y">>)
    \/ AppendToNote(PathOutside, <<"y", "y", "y">>)
    \/ ExternalWrite(PathOutside, <<"x">>)

SpecContain == InitContain /\ [][NextContain /\ UNCHANGED summaries]_vars

\* the calls in flight at once: each of the three mutations of one note,
\* and a reindex
MutationCalls ==
    [create |-> [op |-> "create", arg |-> TitleA, content |-> <<"x">>],
     update |-> [op |-> "update", arg |-> PathA, content |-> <<"y">>],
     append |-> [op |-> "append", arg |-> PathA, content |-> <<"y">>]]

AsyncCalls == DOMAIN MutationCalls \cup {"reindex"}

\* every call yet to start, in a repository and in a plain directory
InitAsync ==
    /\ fs = EmptyTree
    /\ link = NoLink
    /\ dirs = {KbDir}
    /\ gitDirs \in {{KbDir}, {}}
    /\ repo = NewRepo(FALSE)
    /\ notes = {}
    /\ fts = {}
    /\ nextId = 1
    /\ summaries = {}
    /\ last = [op |-> "tasks",
               pc |-> [c \in AsyncCalls |-> "idle"],
               held |-> [c \in AsyncCalls |-> {}],
               out |-> [c \in AsyncCalls |-> [text |-> "", raised |-> "none"]]]

NextAsync ==
    \/ \E c \in DOMAIN MutationCalls : MutationBegins(c, MutationCalls[c])
    \/ \E c \in DOMAIN MutationCalls : MutationSyncs(c, MutationCalls[c])
    \/ ReindexPulls("reindex")
    \/ ReindexScans("reindex")

SpecAsync == InitAsync /\ [][NextAsync /\ UNCHANGED summaries]_vars

\* update and append called with the path rglob gives a note and with a
\* path to the same note through the link KbDir/l -> KbDir/d, and the
\* reconciliation pass
InitKeys == StartedOn({SubDir}, {{}})

NextKeys ==
    \/ ExternalWrite(PathB, <<"x">>)
    \/ \E p \in {PathB, PathViaLink} : UpdateNote(p, <<"y">>)
    \/ AppendToNote(PathViaLink, <<"y", "y", "y">>)
    \/ ReindexKb

SpecKeys == InitKeys /\ [][NextKeys /\ UNCHANGED summaries]_vars

\* get_note_summary between the calls and edits that change a note
TextHeaded == <<"#", " ", "H", NL, "x">>

InitSummary == StartedOn({NoLink}, {{}})

NextSummary ==
    \/ \E c \in {<<"x">>, TextHeaded} : ExternalWrite(PathA, c) /\ UNCHANGED summaries
    \/ ExternalDelete(PathA) /\ UNCHANGED summaries
    \/ UpdateNote(PathA, <<"y">>) /\ UNCHANGED summaries
    \/ AppendToNote(PathA, <<"y">>) /\ UNCHANGED summaries
    \/ ReindexKb /\ UNCHANGED summaries
    \/ GetNoteSummary(PathA)

SpecSummary == InitSummary /\ [][NextSummary]_vars

RecordOf(filepath) == {n \in notes : n.filepath = filepath}

\* the answer of the last get_note_summary call is the one its Note Record
\* gives now
AnswersCurrentRecord ==
    IF RecordOf(last.arg) = {} THEN last.summary = NoteNotFound
    ELSE \A n \in RecordOf(last.arg) : last.summary = SummaryOf(n.content)

\* C38: get_note_summary answers from the current Note Record of the note,
\* never from a summary cached for earlier content (after an update, an
\* append or an orphan purge), and two consecutive calls with no change in
\* between return the same summary and the same key topics
C38_SummaryOfCurrentRecord ==
    /\ [](last.op = "get_summary" => AnswersCurrentRecord)
    /\ [][(last.op = "get_summary" /\ last'.op = "get_summary"
              /\ last.arg = last'.arg)
          => /\ last'.summary = last.summary
             /\ last'.key_topics = last.key_topics]_vars

\* what does hold: a call that finds no cached row answers from the current
\* Note Record, and two consecutive calls return the same summary text
C38_UncachedAnswerIsCurrent ==
    /\ []((last.op = "get_summary" /\ ~last.cached) => AnswersCurrentRecord)
    /\ [][(last.op = "get_summary" /\ last'.op = "get_summary"
              /\ last.arg = last'.arg)
          => last'.summary = last.summary]_vars

\* a call answered from the cache after the record was rewritten
C38_CachedCallAfterRewrite ==
    /\ last.op = "get_summary"
    /\ last.cached
    /\ \E n \in RecordOf(last.arg) : SummaryOf(n.content) # last.summary

\* create_note over every title, with and without a linked directory
InitCreate == StartedOn(LinkTargets, {{}})

NextCreate ==
    \/ \E t \in Titles : CreateNote(t, <<"x">>, <<>>)
    \/ ExternalWrite(PathA, FrontmatterNote)
    \/ ExternalDelete(PathA)

SpecCreate == InitCreate /\ [][NextCreate /\ UNCHANGED summaries]_vars

\* ------------------------------------------------------------------------
\* Properties: vocabulary
\* ------------------------------------------------------------------------

MutationOps == {"create", "update", "append"}

SuccessTexts ==
    {"Successfully created note", "Successfully updated note", "Successfully appended to note"}

\* the store holds exactly one record for `filepath`, and it is the record
\* the indexer derives from the file as it is on disk
HoldsDerivedRecord(filepath) ==
    /\ IsFile(filepath)
    /\ Cardinality({n \in notes : n.filepath = filepath}) = 1
    /\ \A n \in notes : n.filepath = filepath =>
           n = NoteRow(n.id, IndexFile(filepath, FileAt(filepath)))

\* the file of the last call holds the caller's content, laid out as the
\* operation lays it out
HoldsNewContent ==
    /\ IsFile(last.path)
    /\ EndsWith(FileAt(last.path), last.content)
    /\ last.op = "create" =>
           EndsWith(FileAt(last.path), <<"#", " ">> \o last.arg \o <<NL, NL>> \o last.content)
    /\ last.op = "append" => EndsWith(FileAt(last.path), <<NL, NL>> \o last.content)

\* ------------------------------------------------------------------------
\* Properties of the reconciler and the store (SpecStore)
\* ------------------------------------------------------------------------

\* C1 (as the specification states it): once a reconciliation pass has
\* completed and no file has changed since, the store holds no record whose
\* filepath is absent from the file system, the case of a missing note
\* directory included.  index_directory returns early when the directory is
\* missing and purges nothing, so this does not hold of the code.
C1_NoRecordWithoutFile ==
    last.op = "reindex" => \A n \in notes : n.filepath \in DOMAIN fs

\* C2: a pass in which no file failed leaves, for every .md file under the
\* note directory, exactly one record, equal to what the indexer derives
\* from the file's current content; and every file is indexed anew by the
\* pass, whether it changed or not (its record is a freshly inserted row).
C2_PassIndexesEveryFile ==
    [][(last'.op = "reindex" /\ last'.failed = {}) =>
          \A f \in RGlobMd' :
              /\ Cardinality({n \in notes' : n.filepath = f}) = 1
              /\ \A n \in notes' : n.filepath = f =>
                     /\ n = NoteRow(n.id, IndexFile(f, fs'[f]))
                     /\ n.id >= nextId]_vars

\* C2 witness: a second pass over an unchanged, already indexed file has
\* completed and left it under a new row
C2_Reindexed ==
    /\ last.op = "reindex"
    /\ last.failed = {}
    /\ last.indexed = 1
    /\ notes = {NoteRow(2, IndexFile(PathA, FrontmatterNote))}
    /\ fs[PathA] = FrontmatterNote

\* C3 (as the specification states it): in every reachable state the
\* full-text projection has as many rows as there are Note Records, and each
\* of its rows is keyed to an existing record and carries that record's
\* fields.  An upsert of a filepath already in the store replaces the record
\* under a new id and leaves the projection row of the old id behind, so
\* this does not hold of the code.
C3_ProjectionMirrorsRecords ==
    /\ Cardinality(fts) = Cardinality(notes)
    /\ \A r \in fts : \E n \in notes : r = FtsRow(n)

\* ------------------------------------------------------------------------
\* Properties of the mutating tools (SpecTools, SpecSync)
\* ------------------------------------------------------------------------

IndexingErrorText ==
    [create |-> "Error indexing new note",
     update |-> "Error re-indexing updated note",
     append |-> "Error re-indexing appended note"]

\* C6 (as the specification states it): when indexing or upserting fails
\* after a successful file write, the written file is left in place and the
\* failure is reported as a warning appended to the success message, not as
\* a failure of the call.
C6_IndexFailureIsWarning ==
    (last.op \in MutationOps /\ last.raised = "index") =>
        /\ HoldsNewContent
        /\ last.text \in SuccessTexts
        /\ last.glyph = "warning"

\* C6 (amended): when indexing or upserting fails after a successful file
\* write, the written file is left in place, and the call returns the
\* indexing error text of its except clause in place of the success
\* message, with no sync attempted and no sync annotation.
C6_IndexFailureIsErrorText ==
    (last.op \in MutationOps /\ last.raised = "index") =>
        /\ HoldsNewContent
        /\ last.text = IndexingErrorText[last.op]
        /\ last.text \notin SuccessTexts
        /\ last.sync = "none"
        /\ last.glyph = "none"

\* C6 witness: create wrote the file, indexing raised, and the store has no
\* record of the note
C6_WrittenNotIndexed ==
    /\ last.op = "create"
    /\ last.raised = "index"
    /\ fs[PathA] = CreateContent(TitleA, <<"x">>, <<"t">>)
    /\ notes = {}

\* C7 (as the specification states it): the write of create, update and
\* append is all-or-nothing: a call whose write fails leaves the prior
\* content (or the absence of the file) intact, never a truncated or partial
\* file.  The tools write through open(path, 'w'), which has truncated or
\* created the file before the write can fail, so this does not hold of the
\* code.
C7_WriteAllOrNothing ==
    [][(last'.op \in MutationOps /\ last'.raised = "write") => fs' = fs]_vars

\* ------------------------------------------------------------------------
\* Properties of create_note (SpecCreate)
\* ------------------------------------------------------------------------

\* the path create_note derives from a title
TitlePath(title) == TargetPath(KbDir, SanitizedParts(title))

\* some '/'-separated segment of the title sanitizes to empty, '.' or '..'
HasDegenerateSegment(title) ==
    \E i \in 1..Len(SplitCh(title, "/")) :
        SanitizePart(SplitCh(title, "/")[i]) \in {<<>>, <<".">>, <<".", ".">>}

\* the call changed nothing on disk or in the store and attempted no sync
NothingDone ==
    /\ UNCHANGED <<fs, dirs, notes, fts, nextId, repo>>
    /\ last'.sync = "none"
    /\ last'.glyph = "none"

\* C8: a create whose title has a segment that sanitizes to empty, '.' or
\* '..' (a traversal attempt such as ../../evil among them) returns the
\* invalid-input error, creates no file or directory, leaves the store
\* unchanged and attempts no sync.
C8_DegenerateTitleRejected ==
    [][(last'.op = "create" /\ HasDegenerateSegment(last'.arg)) =>
          /\ last'.text = "Error: Invalid path component in title"
          /\ NothingDone]_vars

\* C8 witness: the traversal title was refused on a knowledge base that
\* holds a note and its record
C8_TraversalRefused ==
    /\ last.op = "create"
    /\ last.arg = TitleTraversal
    /\ last.text = "Error: Invalid path component in title"
    /\ PathA \in DOMAIN fs
    /\ notes # {}

\* C9 (as the specification states it): create writes a file only when the
\* resolved target is a descendant of the resolved note directory, compared
\* by path components; every other target, one in a sibling directory whose
\* name merely extends the root's name included, is rejected with the
\* security error and nothing is written.  The code compares the two
\* resolved paths as strings with startswith, so a target in such a sibling
\* directory passes the check.
C9_WritesOnlyBelowRoot ==
    (last.op = "create" /\ ~HasDegenerateSegment(last.arg)) =>
        LET target == Resolve(TitlePath(last.arg))
        IN  \/ Below(target, Resolve(KbDir))
            \/ /\ last.text = "Error: Invalid path: attempt to write outside knowledge base directory"
               /\ target \notin DOMAIN fs

\* C10: a create whose title sanitizes to the path of an existing file (any
\* two titles that sanitize alike meet on one path, as "a" and "A!" do)
\* fails with the already-exists error naming that path, leaves the
\* existing file and the store unchanged and attempts no sync.
C10_ExistingTargetRefused ==
    [][(/\ last'.op = "create"
        /\ ~HasDegenerateSegment(last'.arg)
        /\ \/ IsFile(TitlePath(last'.arg))
           \/ last'.arg \in {TitleA, TitleA2} /\ PathA \in DOMAIN fs) =>
          /\ last'.text = "Error: Note already exists. Use update_note to modify it."
          /\ last'.path = TitlePath(last'.arg)
          /\ NothingDone]_vars

\* C10 witness: "A!" was refused because the note created as "a" holds its
\* path
C10_SecondTitleRefused ==
    /\ last.op = "create"
    /\ last.arg = TitleA2
    /\ last.text = "Error: Note already exists. Use update_note to modify it."
    /\ last.path = PathA
    /\ fs[PathA] = CreateContent(TitleA, <<"x">>, <<>>)

\* ------------------------------------------------------------------------
\* Properties of update_note and append_to_note (SpecTools, SpecRewrite)
\* ------------------------------------------------------------------------

\* C11: update and append on a filepath that does not exist fail with the
\* not-found error and change nothing: no file is created, the store is
\* unchanged and no commit-and-push is attempted.
C11_MissingNoteNotFound ==
    [][(/\ last'.op \in {"update", "append"}
        /\ Resolve(last'.arg) \notin DOMAIN fs
        /\ Resolve(last'.arg) \notin dirs) =>
          /\ last'.text = "Error: Note not found"
          /\ last'.raised = "none"
          /\ NothingDone]_vars

\* C11 witness: an append was refused for a note that was deleted after it
\* had been created and indexed
C11_AppendRefused ==
    /\ last.op = "append"
    /\ last.text = "Error: Note not found"
    /\ PathA \notin DOMAIN fs
    /\ \E n \in notes : n.filepath = PathA

\* the frontmatter block a file opens with: its text from the opening
\* "---" through the closing "---"; empty when the file has none
FrontmatterBlockOf(content) ==
    IF StartsWith(content, Dashes) /\ Find(content, Dashes, Len(Dashes) + 1) # 0
    THEN SubSeq(content, 1, Find(content, Dashes, Len(Dashes) + 1) + Len(Dashes) - 1)
    ELSE <<>>

\* text is `block`, then nothing but line ends, then `content`
BlockThenContent(text, block, content) ==
    /\ StartsWith(text, block)
    /\ EndsWith(text, content)
    /\ Len(text) >= Len(block) + Len(content)
    /\ \A i \in (Len(block) + 1)..(Len(text) - Len(content)) : text[i] = NL

\* C12 (as the specification states it): update on a file with a
\* frontmatter block rewrites it as the original block reproduced verbatim
\* followed by the new content, so that the frontmatter text survives any
\* number of updates; on a file without frontmatter the new content becomes
\* the entire file.  update_note_file writes the block anew from the parsed
\* key/value pairs (quotes stripped, lines without a colon dropped), so a
\* block that is not already in that form is not reproduced.
C12_UpdateKeepsFrontmatterVerbatim ==
    [][(last'.op = "update" /\ last'.text = "Successfully updated note") =>
          LET old == fs[Resolve(last'.arg)]
              new == fs'[Resolve(last'.arg)]
          IN  IF FrontmatterBlockOf(old) # <<>>
              THEN BlockThenContent(new, FrontmatterBlockOf(old), last'.content)
              ELSE new = last'.content]_vars

\* the text before the trailing whitespace of e
TrimEnd(e) ==
    LET cut == CHOOSE i \in 0..Len(e) :
                   /\ i = 0 \/ ~IsSpaceCh(e[i])
                   /\ \A j \in (i + 1)..Len(e) : IsSpaceCh(e[j])
    IN  SubSeq(e, 1, cut)

\* C13: a successful append of C to a file holding E leaves the file equal
\* to E without its trailing whitespace, then exactly two newlines, then C;
\* what E held before its trailing whitespace stays as a prefix, append
\* after append.
C13_AppendAfterOneBlankLine ==
    [][(last'.op = "append" /\ last'.text = "Successfully appended to note") =>
          LET old == fs[Resolve(last'.arg)]
              new == fs'[Resolve(last'.arg)]
          IN  /\ new = TrimEnd(old) \o <<NL, NL>> \o last'.content
              /\ StartsWith(new, TrimEnd(old))]_vars

\* C13 witness: two successive appends to a note that ended in whitespace
C13_AppendedTwice ==
    /\ last.op = "append"
    /\ last.text = "Successfully appended to note"
    /\ fs[PathA] = <<"o", NL, NL, "y", NL, NL, "y">>

\* ------------------------------------------------------------------------
\* Properties of create_directory (SpecDirs)
\* ------------------------------------------------------------------------

\* p is the note directory or lies below it, component by component
UnderRoot(p) == p = KbDir \/ (Len(p) > Len(KbDir) /\ SubSeq(p, 1, Len(KbDir) + 1) = KbDir \o <<"/">>)

\* C14: create_directory is not an idempotent success.  The first call for
\* a new path inside the root creates the directory and returns success;
\* every identical later call (the directory exists) returns non-success
\* "already exists" and changes nothing; a path that resolves outside the
\* root is rejected and nothing is created; a path occupied by a file fails
\* and the file is not modified.  No call touches a file, the store or the
\* repository.
C14_CreateDirectoryOutcomes ==
    [][last'.op = "create_directory" =>
          LET target == DirTarget(last'.arg)
              free   == target \notin dirs /\ target \notin DOMAIN fs
          IN  /\ UNCHANGED <<fs, notes, fts, nextId, repo>>
              /\ ~UnderRoot(target) =>
                     /\ ~last'.ok
                     /\ last'.text = "Error: Directory path must be within the knowledge base directory"
                     /\ dirs' = dirs
              /\ (UnderRoot(target) /\ target \in dirs) =>
                     /\ ~last'.ok
                     /\ last'.text = "Directory already exists"
                     /\ dirs' = dirs
              /\ (UnderRoot(target) /\ target \in DOMAIN fs) =>
                     /\ ~last'.ok
                     /\ last'.text = "A file already exists at"
                     /\ dirs' = dirs
              /\ (UnderRoot(target) /\ free /\ Ancestors(target) \cap DOMAIN fs = {}) =>
                     /\ last'.ok
                     /\ last'.text = "Successfully created directory"
                     /\ target \in dirs'
                     /\ \A d \in dirs' \ dirs : UnderRoot(d)
              /\ ~last'.ok => dirs' = dirs]_vars

\* C14 witness: the call that made /k/n was repeated and refused
C14_SecondCallRefused ==
    /\ last.op = "create_directory"
    /\ last.arg = DirNew
    /\ ~last.ok
    /\ last.text = "Directory already exists"
    /\ (KbDir \o <<"/">> \o DirNew) \in dirs

\* ------------------------------------------------------------------------
\* Properties of the sync adapter (SpecGit)
\* ------------------------------------------------------------------------

\* the messages of a sync that failed after the commit was made
SavedLocallyTexts ==
    {"Saved locally but couldn't sync to GitHub (no internet connection)",
     "Saved locally but couldn't sync to GitHub"}

\* C15: commit_and_push on a working tree with nothing to commit returns
\* success with "No changes to commit", creates no commit and is a no-op:
\* the repository (its branch history with it) is the same after the call,
\* however often the call is repeated.
C15_NothingToCommitIsNoOp ==
    [][(/\ last'.op = "commit_and_push"
        /\ KbDir \in gitDirs
        /\ ~repo.detached
        /\ [p \in {q \in DOMAIN fs : Below(q, KbDir)} |-> fs[p]] = repo.head) =>
          /\ last'.ok
          /\ last'.msg = "No changes to commit"
          /\ repo' = repo]_vars

\* C15 witness: the call was made on a repository that holds a commit and
\* whose tree has not changed since
C15_NoChanges ==
    /\ last.op = "commit_and_push"
    /\ last.msg = "No changes to commit"
    /\ repo.commits = 1
    /\ PathA \in DOMAIN fs

C17_UnpushedCommitSyncedLater ==
    [][(/\ last'.op = "commit_and_push"
        /\ last'.remote = "ok"
        /\ KbDir \in gitDirs
        /\ repo.unpushed
        /\ ~repo.detached
        /\ last'.msg # "Failed to create local commit") =>
          ~repo'.unpushed]_vars

\* C18: when pull or commit_and_push has returned, on whichever path, the
\* askpass script that carried the credential is no longer on disk.
C18_NoCredentialLeftBehind ==
    ~repo.askpass

\* C18 witness: a credential was injected for a commit_and_push whose sync
\* failed on the network
C18_InjectedThenFailed ==
    /\ repo.token
    /\ last.op = "commit_and_push"
    /\ last.msg = "Saved locally but couldn't sync to GitHub (no internet connection)"

\* ------------------------------------------------------------------------
\* Properties of the scope of the sync (SpecScope)
\* ------------------------------------------------------------------------

\* C19 (as the specification states it): for create, update and append
\* alike, the commit-and-push that follows the write runs in the nearest
\* ancestor directory of the written file that holds a .git marker; only
\* when no ancestor holds one is the sync reported as "Not a git
\* repository" with a warning, the write having succeeded.  create_note
\* hands KB_DIR to the sync without the walk, so a note created below a
\* marker that is not in KB_DIR is reported as outside any repository.
C19_SyncScopedToNearestMarker ==
    (last.op \in MutationOps /\ last.text \in SuccessTexts) =>
        IF FindGitRoot(last.path) = <<>>
        THEN last.git = "Not a git repository" /\ last.glyph = "warning"
        ELSE last.git # "Not a git repository"

\* ------------------------------------------------------------------------
\* Properties of repeated reconciliation (SpecStore)
\* ------------------------------------------------------------------------

\* the Note Records of a table without their row ids
RecordsOf(rows) ==
    {[filepath |-> r.filepath, title |-> r.title, content |-> r.content, tags |-> r.tags] :
         r \in rows}

\* C20 (as the specification states it): a reconciliation that directly
\* follows another, with no change to the files between the two, returns
\* the same indexed_count, a removed_count of 0, and leaves the set of Note
\* Records as the first run left it.  A first run that found the root
\* directory missing returns (0, 0) without purging, so the run after it
\* removes the records the first one kept.
C20_ReindexTwiceIsIdempotent ==
    [][(last.op = "reindex" /\ last'.op = "reindex") =>
          /\ last'.indexed = last.indexed
          /\ last'.removed = 0
          /\ RecordsOf(notes') = RecordsOf(notes)]_vars

\* the same statement for a first run that found the root directory
C20_IdempotentOnExistingRoot ==
    [][(last.op = "reindex" /\ last.hadRoot /\ last'.op = "reindex") =>
          /\ last'.indexed = last.indexed
          /\ last'.removed = 0
          /\ RecordsOf(notes') = RecordsOf(notes)]_vars

\* ------------------------------------------------------------------------
\* Properties of the orphan purge (SpecStore)
\* ------------------------------------------------------------------------

\* the stored rows whose file is no longer on disk
GoneRows == {n \in notes : Resolve(n.filepath) \notin DOMAIN fs}

\* the purge of one reconciliation step: every row whose file is gone has
\* left both tables, no search returns it, and removed_count counts them
PurgedByStep ==
    /\ \A n \in GoneRows :
           /\ \A m \in notes' : m.filepath # n.filepath
           /\ \A r \in fts' : r.rowid # n.id
           /\ \A q \in Queries : \A h \in SearchHits(notes', fts', q) : h.filepath # n.filepath
    /\ last'.removed = Cardinality({n.filepath : n \in GoneRows})
    /\ last'.removed >= 1

\* C21 (as the specification states it): when the store holds a Note Record
\* for a file that has been deleted from disk, a reconciliation pass
\* removes the record and its projection row, returns a removed_count that
\* is the number of stored filepaths not found on disk (at least 1), and
\* no search returns the purged note afterwards.  A pass that finds the
\* root directory missing returns (0, 0) and purges nothing.
C21_OrphanPurged ==
    [][(last'.op = "reindex" /\ GoneRows # {}) => PurgedByStep]_vars

\* the same statement for a pass that finds the root directory
C21_OrphanPurgedUnderRoot ==
    [][(last'.op = "reindex" /\ GoneRows # {} /\ KbDir \in dirs) => PurgedByStep]_vars

\* ------------------------------------------------------------------------
\* Properties of search and recent (SpecQuery)
\* ------------------------------------------------------------------------

\* the rows a query has to choose from
AvailableRows ==
    IF last.op = "search" THEN Cardinality(SearchHits(notes, fts, last.query))
    ELSE Cardinality(notes)

\* the smaller of two integers
MinOf(a, b) == IF a <= b THEN a ELSE b

\* recent rows come newest first
NewestFirst(rows) ==
    \A i, j \in 1..Len(rows) : i < j => rows[i].modified_at >= rows[j].modified_at

\* C22 (as the specification states it): search and recent return at most
\* `limit` rows for every integer limit, namely min(limit, available
\* rows), and recent returns them by modified_at descending.  The limit is
\* handed to LIMIT ? as it is, and a negative LIMIT returns every row.
C22_LimitTruncates ==
    last.op \in {"search", "recent"} =>
        /\ Len(last.rows) <= last.limit
        /\ Len(last.rows) = MinOf(last.limit, AvailableRows)
        /\ last.op = "recent" => NewestFirst(last.rows)

\* the same statement for the limits that are not negative
C22_NonNegativeLimitTruncates ==
    (last.op \in {"search", "recent"} /\ last.limit >= 0) =>
        /\ Len(last.rows) = MinOf(last.limit, AvailableRows)
        /\ last.op = "recent" => NewestFirst(last.rows)

\* ------------------------------------------------------------------------
\* Properties of the Note Indexer (SpecIndex)
\* ------------------------------------------------------------------------

\* the text of the note that was indexed
IndexedText == fs[PathA]

\* a heading line: "#", then blanks, then text on the same line
IsHeadingLine(l) ==
    /\ Len(l) >= 3
    /\ l[1] = "#"
    /\ l[2] \in {" ", "\t"}
    /\ \E i \in 3..Len(l) : ~IsSpaceCh(l[i])

\* the text of the first heading line of a body, <<>> when it has none
FirstHeading(body) ==
    LET lines == SplitCh(body, NL)
        at    == {i \in 1..Len(lines) : IsHeadingLine(lines[i])}
    IN  IF at = {} THEN <<>>
        ELSE LStripOf(Tail(lines[CHOOSE i \in at : \A j \in at : i <= j]), {" ", "\t"})

\* C23 (as the specification states it): the title is the frontmatter
\* title when that is not empty, else the text of the first '# ' heading
\* line of the body, else the filename stem; it is never empty, and a file
\* with no frontmatter and no heading line gets the stem.  The heading is
\* found with ^#\s+(.+)$, whose \s+ runs over line ends: a line holding
\* only "#" makes the next line the title.
C23_TitlePriority ==
    last.op = "index" =>
        LET parsed == ExtractFrontmatter(IndexedText)
            fmt    == DictGet(parsed.fm, KeyTitle, <<>>)
            head   == FirstHeading(parsed.body)
        IN  /\ last.rec.title # <<>>
            /\ last.rec.title = IF fmt # <<>> THEN fmt
                                ELSE IF head # <<>> THEN head
                                ELSE Stem(PathA)

\* the part of the statement that holds: a frontmatter title comes first
\* and the title is never empty
C23_TitleNeverEmpty ==
    last.op = "index" =>
        LET fmt == DictGet(ExtractFrontmatter(IndexedText).fm, KeyTitle, <<>>)
        IN  /\ last.rec.title # <<>>
            /\ fmt # <<>> => last.rec.title = fmt

\* a block whose two delimiters are lines of their own
WellFormedBlock(text) ==
    LET lines == SplitCh(text, NL)
    IN  /\ lines[1] = Dashes
        /\ \E i \in 2..Len(lines) : lines[i] = Dashes

\* the split extract_frontmatter makes: the text opens with the dashes and
\* holds them a second time, wherever
SplitAsBlock(text) == StartsWith(text, Dashes) /\ Find(text, Dashes, Len(Dashes) + 1) # 0

PullSuccessTexts == {"Already up to date", "Pulled 1 commit(s)"}

\* C25: reindex_kb and the start of the server pull before they reconcile,
\* and reconcile whatever the pull returned: after the step every readable
\* note that is on disk once the pull is done (a pulled note included) has
\* its record and is counted in indexed_count, a pass that found no root
\* directory has made it, and a failed pull shows as a warning next to the
\* counts.
C25_PullThenReconcile ==
    [][last'.op \in {"reindex", "startup"} =>
          /\ last'.hadRoot =>
                 /\ last'.indexed = Cardinality({f \in RGlobMd' : Readable(fs'[f])})
                 /\ \A f \in RGlobMd' :
                        Readable(fs'[f]) =>
                            \E n \in notes' : /\ n.filepath = f
                                              /\ n.content = IndexFile(f, fs'[f]).content
                 /\ \A n \in notes' : n.filepath \in RGlobMd'
          /\ ~last'.hadRoot => last'.indexed = 0 /\ last'.removed = 0
          /\ KbDir \in dirs'
          /\ (last'.git \notin PullSuccessTexts) <=> (last'.glyph = "warning")]_vars

\* C25 witness: the pull brought a note and the pass of the same call
\* indexed it
C25_PulledNoteIndexed ==
    /\ last.op = "reindex"
    /\ last.git = "Pulled 1 commit(s)"
    /\ \E n \in notes : n.filepath = RemotePath /\ n.content = RemoteContent

\* the pull failed on a detached repository and the pass indexed the note
C25_IndexedAfterFailedPull ==
    /\ last.op \in {"reindex", "startup"}
    /\ last.git = "Not on a branch (detached HEAD)"
    /\ last.glyph = "warning"
    /\ last.indexed = 1

\* ------------------------------------------------------------------------
\* Properties of a pass over a file that cannot be indexed (SpecStore)
\* ------------------------------------------------------------------------

\* C26: a file that fails to index does not abort the reconciliation pass:
\* every other file found is indexed and stored, and indexed_count is the
\* number of files indexed, wherever the failing file comes in the order
\* of the iteration.
C26_FailureDoesNotAbortPass ==
    [][(last'.op = "reindex" /\ last'.hadRoot /\ last'.failed # {}) =>
          /\ \A f \in RGlobMd' \ last'.failed :
                 \E n \in notes' : /\ n.filepath = f
                                   /\ n.title = IndexFile(f, fs'[f]).title
                                   /\ n.content = IndexFile(f, fs'[f]).content
                                   /\ \E r \in fts' : r.rowid = n.id /\ r.content = n.content
          /\ last'.indexed = Cardinality(RGlobMd' \ last'.failed)]_vars

\* C26 witness: a pass met one file it could not read and indexed the other
C26_OneFailedOneIndexed ==
    /\ last.op = "reindex"
    /\ last.failed = {PathA}
    /\ last.indexed = 1
    /\ \E n \in notes : n.filepath = PathB

\* ------------------------------------------------------------------------
\* Properties of the pull (SpecGit) and of the refusals (SpecRemote)
\* ------------------------------------------------------------------------

\* the pull of this step got as far as the rebase
PullReachedRebase ==
    /\ last'.op = "pull"
    /\ last'.remote \in {"rebase_conflict", "rebase_network"}
    /\ KbDir \in gitDirs
    /\ ~repo.detached
    /\ repo.origin
    /\ RemoteAhead(repo)

\* C27: when the pull-with-rebase step of pull fails, the rebase is aborted
\* before pull returns: the result is success=false, the repository is on
\* its branch with no rebase in progress, and it holds the commits and the
\* files it had before the call.
C27_FailedRebaseAborted ==
    [][PullReachedRebase =>
          /\ ~last'.ok
          /\ ~repo'.detached
          /\ repo'.commits = repo.commits
          /\ repo'.head = repo.head
          /\ repo'.unpushed = repo.unpushed
          /\ fs' = fs]_vars

\* C27 witness: the rebase of a pull stopped on a conflict while the
\* branch held a commit of its own that was not pushed
C27_ConflictWithLocalCommit ==
    /\ last.op = "pull"
    /\ last.remote = "rebase_conflict"
    /\ last.msg = "Git pull failed"
    /\ repo.commits = 1
    /\ repo.unpushed

\* the pull of this step fetched from the remote
PullFetched ==
    /\ last'.op = "pull"
    /\ KbDir \in gitDirs
    /\ ~repo.detached
    /\ repo.origin

\* C28 (as the specification states it): pull returns 'Already up to date'
\* only when the fetch succeeded and the upstream branch has no commit the
\* local branch lacks, and then changes nothing; when the fetch fails it
\* returns success=false, rebases nothing and changes nothing.  When the
\* count of the commits behind raises, the count is taken to be 0.
C28_UpToDateOnlyWhenEven ==
    [][PullFetched =>
          /\ last'.msg = "Already up to date" =>
                 /\ last'.ok
                 /\ last'.remote \notin {"fetch_network", "fetch_error"}
                 /\ ~RemoteAhead(repo)
                 /\ repo' = repo /\ fs' = fs
          /\ last'.remote \in {"fetch_network", "fetch_error"} =>
                 ~last'.ok /\ repo' = repo /\ fs' = fs]_vars

\* the same statement for the pulls whose count of the commits behind
\* does not raise
C28_UpToDateWhenCounted ==
    [][(PullFetched /\ last'.remote # "count_raises") =>
          /\ last'.msg = "Already up to date" =>
                 /\ last'.ok
                 /\ last'.remote \notin {"fetch_network", "fetch_error"}
                 /\ ~RemoteAhead(repo)
                 /\ repo' = repo /\ fs' = fs
          /\ last'.remote \in {"fetch_network", "fetch_error"} =>
                 ~last'.ok /\ repo' = repo /\ fs' = fs]_vars

\* the texts of the refusals
RefusalTexts ==
    {"Not a git repository", "Not on a branch (detached HEAD)", "Unexpected error"}

\* C29 (as the specification states it): pull and commit_and_push return
\* (success=false, message) and change nothing in the repository when the
\* directory is not a repository, the repository is detached, or it has
\* no remote.  commit_and_push looks for the remote only after it has
\* committed.
C29_RefusalsChangeNothing ==
    [][(/\ last'.op \in {"pull", "commit_and_push"}
        /\ (KbDir \notin gitDirs \/ repo.detached \/ ~repo.origin)) =>
          /\ ~last'.ok \/ last'.msg = "No changes to commit"
          /\ repo' = repo
          /\ fs' = fs]_vars

\* the same statement for a directory that is not a repository and for a
\* detached repository
C29_NoRepositoryOrDetached ==
    [][(/\ last'.op \in {"pull", "commit_and_push"}
        /\ (KbDir \notin gitDirs \/ repo.detached)) =>
          /\ ~last'.ok
          /\ last'.msg \in RefusalTexts
          /\ repo' = repo
          /\ fs' = fs]_vars

\* ------------------------------------------------------------------------
\* Properties of a call that waits for the remote (SpecWait)
\* ------------------------------------------------------------------------

\* a call of the adapter has returned
CallReturned == last.op \in {"pull", "commit_and_push"} /\ last.phase = "returned"

\* C30 (as the specification states it): every pull and commit_and_push
\* call eventually returns a (success, message) result, even when the
\* remote never answers, because each network step is bounded by a
\* timeout.  fetch, pull and push are started without a timeout, so a call
\* whose remote never answers stays blocked.
C30_EveryCallReturns == Waiting ~> CallReturned

\* what holds: a call whose subprocess has ended returns
C30_AnsweredCallReturns == Answered ~> CallReturned

\* ------------------------------------------------------------------------
\* Properties of the failure classification (SpecClassify)
\* ------------------------------------------------------------------------

\* the wordings that tell the caller the data is safe and the network is down
NetworkWordings ==
    {"Saved locally but couldn't sync to GitHub (no internet connection)",
     "Couldn't sync with GitHub (no internet connection)",
     "Couldn't complete sync with GitHub (no internet connection)"}

\* C31 (as the specification states it): at fetch, pull with rebase and
\* push alike, a failure caused by a refused connection, a failed name
\* resolution or a timeout is reported with the data-is-safe wording and
\* without the raw error, and a failure of any other cause (merge conflict,
\* rejected credentials) is reported with its raw error text.
C31_SplitByCause ==
    last.op = "sync_error" =>
        /\ ~last.ok
        /\ last.cause \in NetworkCauses => last.msg \in NetworkWordings /\ last.raw = <<>>
        /\ last.cause \in OtherCauses => last.msg \notin NetworkWordings /\ last.raw = last.error

\* what holds: the split follows the cause when neither the branch name nor
\* the commit subject holds an indicator word
C31_SplitByCauseOnPlainNames ==
    (last.op = "sync_error" /\ last.branch # BranchNetwork
        /\ (last.cause = "conflict" => last.subject # SubjectNetwork)) =>
        /\ ~last.ok
        /\ last.cause \in NetworkCauses => last.msg \in NetworkWordings /\ last.raw = <<>>
        /\ last.cause \in OtherCauses => last.msg \notin NetworkWordings /\ last.raw = last.error

\* ------------------------------------------------------------------------
\* Properties of the frontmatter parser (SpecParse)
\* ------------------------------------------------------------------------

\* v without one layer of matching quote characters, v itself when its two
\* ends are not the same quote character
OneLayerOff(v) ==
    IF Len(v) >= 2 /\ v[1] = v[Len(v)] /\ v[1] \in {"\"", "'"}
    THEN SubSeq(v, 2, Len(v) - 1)
    ELSE v

\* the dict a parser gives for the line when it removes one layer of quotes
OneLayerDict(line) ==
    LET c == Find(Strip(line), <<":">>, 1)
    IN  IF c = 0 THEN <<>>
        ELSE <<<<Strip(SubSeq(Strip(line), 1, c - 1)),
                 OneLayerOff(Strip(From(Strip(line), c + 1)))>>>>

\* C32 (as the specification states it): each line of the block is split on
\* its first ':' into a trimmed key and a trimmed value from which exactly
\* one layer of matching quote characters is removed, a value in several
\* or in mismatched quotes keeping the rest; a line without ':' is skipped.
C32_OneQuoteLayerRemoved ==
    last.op = "parse" => last.fm = OneLayerDict(last.line)

\* what holds: lines without ':' are skipped, and the other lines give one
\* entry under the trimmed text before the first ':' whose value is the
\* one-layer value when that has no quote character left at either end
C32_SplitOnFirstColon ==
    last.op = "parse" =>
        LET want == OneLayerDict(last.line)
        IN  /\ Len(last.fm) = Len(want)
            /\ want # <<>> =>
                  /\ last.fm[1][1] = want[1][1]
                  /\ (StripOf(want[1][2], {"\"", "'"}) = want[1][2]) =>
                         last.fm[1][2] = want[1][2]

\* ------------------------------------------------------------------------
\* Properties of the tags field (SpecTags)
\* ------------------------------------------------------------------------

\* the forms of tags the indexed note can have been written with
FormsOfIndexed ==
    {g \in TagForms : \E t \in TitleLines, b \in Bodies :
                          fs[last.path] = TaggedNote(t, g, b)}

\* C33 (as the specification states it): the tags of the record are a
\* comma-joined string: the elements joined by commas for a sequence in the
\* frontmatter, the value as it is for a scalar, the empty string for
\* missing tags.
C33_TagsCommaJoined ==
    last.op = "index" =>
        \A g \in FormsOfIndexed :
            last.rec.tags \in {Join(g.elems, <<",">>), Join(g.elems, <<",", " ">>)}

\* what holds: a scalar is kept as it is and missing tags give the empty
\* string
C33_ScalarOrMissingTags ==
    last.op = "index" =>
        \A g \in FormsOfIndexed :
            g.kind # "sequence" => last.rec.tags = Join(g.elems, <<",">>)

\* ------------------------------------------------------------------------
\* Properties of containment for every mutation (SpecContain)
\* ------------------------------------------------------------------------

\* the files a step created or modified
WrittenByStep == {p \in DOMAIN fs' : p \notin DOMAIN fs \/ fs'[p] # fs[p]}

\* C34 (as the specification states it): whatever title or filepath the
\* caller supplies, no create, update or append call creates or modifies a
\* file whose resolved path is outside the note directory.
C34_MutationsStayInsideRoot ==
    [][last'.op \in MutationOps =>
          \A p \in WrittenByStep : Below(p, Resolve(KbDir))]_vars

\* what holds: a call given a path inside the note directory, or a title,
\* writes inside it when no link leads out of it
C34_InsidePathsStayInside ==
    [][(last'.op = "create" \/ (last'.op \in {"update", "append"} /\ Below(last'.arg, KbDir))) =>
          \A p \in WrittenByStep : Below(p, KbDir)]_vars

\* ------------------------------------------------------------------------
\* Properties of the branch state after a sync (SpecGit)
\* ------------------------------------------------------------------------

\* C35 (as the specification states it): when a commit_and_push or pull
\* call has returned, a call whose pull with rebase stopped on a conflict
\* included, the repository is on its branch with no rebase in progress,
\* so that no later sync call is refused as detached because of an earlier
\* failed sync.
C35_OnBranchAfterSync ==
    last.op \in {"pull", "commit_and_push"} => ~repo.detached

\* what holds: a pull call leaves the repository on its branch whenever it
\* found it there
C35_PullKeepsBranch ==
    [][last'.op = "pull" => repo'.detached = repo.detached]_vars

\* ------------------------------------------------------------------------
\* Properties of interleaved tool calls (SpecAsync)
\* ------------------------------------------------------------------------

\* every call has returned, none of them through a failed read, write or
\* index step
AllReturnedClean ==
    /\ last.op = "tasks"
    /\ \A c \in AsyncCalls : last.pc[c] = "returned" /\ last.out[c].raised = "none"

\* the notes the calls touched that are on disk
TouchedNotes == {p \in {PathA, RemotePath} : IsFile(p)}

PassRightAfterMutation ==
    /\ last.op \in {"update", "append"}
    /\ last.text \in SuccessTexts
    /\ last'.op = "reindex"

\* C37 (as the specification states it): update and append store the
\* record under the filepath key reconciliation uses for the file, however
\* the caller spells the path: no mutation leaves two records for one
\* file, and a reconciliation pass run right after a successful mutation
\* removes nothing.
C37_OneKeyPerFile ==
    [][/\ last'.op \in {"update", "append"} =>
              \A n1, n2 \in notes' :
                  Resolve(n1.filepath) = Resolve(n2.filepath) => n1.filepath = n2.filepath
       /\ PassRightAfterMutation => last'.removed = 0]_vars

\* what holds: the same for a call given the path as rglob spells it, on a
\* store whose keys are all spelled that way
C37_OneKeyForScannedSpelling ==
    [][/\ (last'.op \in {"update", "append"} /\ last'.arg \in RGlobMd
             /\ \A n \in notes : n.filepath \in RGlobMd) =>
              \A n \in notes' : Resolve(n.filepath) = last'.arg => n.filepath = last'.arg
       /\ (PassRightAfterMutation /\ last.arg \in RGlobMd
             /\ \A n \in notes : n.filepath \in RGlobMd) => last'.removed = 0]_vars

====
